---- MODULE Spec2Model ----
(***************************************************************************)
(* Generational Agent Succession: the swarm scheduler (wave barrier,       *)
(* run_swarm loop, wave-manager commands) and the single-mode succession   *)
(* loop (spawn_generation, handle_succession, run_orchestrator), with the  *)
(* trigger evaluator they consult; the knowledge store (knowledge-store.py *)
(* and the orchestrator's consolidation); and the dashboard server's       *)
(* position tracker, parse cache, event parser, status gatherer and file   *)
(* watchers.                                                               *)
(***************************************************************************)
EXTENDS Integers, Sequences, FiniteSets, TLC

\* ------------------------------------------------------------------ bounds
MaxAgents == 3
MaxGen == 3
MaxManual == 1
\* knowledge store: DEFAULT_CONFIG caps (50, 25 and 100 in the source) scaled down,
\* and the number of store commands in one behaviour
max_success_patterns == 2
max_anti_patterns == 1
max_domain_knowledge == 2
MaxStoreOps == 3
\* dashboard: events a worker appends to one output file, truncations of one file,
\* timestamps; FilePositionTracker(max_files=100) scaled down
MaxEvents == 3
MaxTruncs == 1
MaxTs == 2
max_files == 2
\* dashboard: MAX_LIVE_EVENTS (50), the parsed.live_events[-10:] slice and
\* BoundedParseCache(max_size=50) scaled down; cache lookups in one run
MAX_LIVE_EVENTS == 3
LiveTail == 2
max_size == 1
MaxLookups == 4
MaxFaults == 2
MaxClients == 2
limit_per_type == 1
MaxExportAdds == 2
MaxChunkLines == 2
MaxCalls == 2
MaxStall == 11
MaxDecays == 2
MaxCapacity == 2
\* single mode over a long run: the generations the loop gets to spawn
MaxSpawned == 11

\* ------------------------------------------------- trigger configuration
\* check-triggers.py WEIGHTS, in hundredths
W_interactions == 25
W_confidence == 30
W_errors == 25
W_stall == 20
\* check-triggers.py THRESHOLDS (confidence and error rate in hundredths)
interaction_limit == 150
confidence_min == 70
error_rate_max == 15
stall_minutes == 10
\* urgency thresholds of evaluate_triggers, in hundredths
T_immediate == 70
T_soon == 50

VARIABLES
    fstate,       \* gas-state.json of a swarm workspace
    mstate,       \* WaveManager.state: the loop's in-memory copy
    agen,         \* per agent: its latest generation directory (status.json)
    spc,          \* run_swarm's position
    wm_pc,        \* wave-manager.py advance: between can_advance_wave and the update
    gens,         \* single mode: generations/gen-N (status.json, transfer.json)
    sstate,       \* single mode: gas-state.json
    lpc,          \* run_orchestrator's position
    current_gen,  \* run_orchestrator's local current_gen
    exit_code,    \* exit status of the run command (-1 while it runs)
    knowledge,    \* knowledge/store.json
    manual,       \* invocations of the spawn command so far
    report,       \* a final report has been written
    ks_ops,       \* knowledge store commands run so far
    added,        \* history: the (kind, context, pattern) triples given to add so far
    lastadd,      \* the arguments of the latest add command
    files,        \* the files the dashboard reads: content, mtime, write history
    tfiles,       \* FilePositionTracker._files
    treads,       \* the tracked paths ordered by FileState.last_read, oldest first
    returned,     \* history: per path, the buffers get_new_content returned since
                  \* the last truncation reset, concatenated
    cache,        \* BoundedParseCache._cache
    access_order, \* BoundedParseCache._access_order
    _hits,        \* BoundedParseCache._hits
    _misses,      \* BoundedParseCache._misses
    agent_parsed, \* GASStatusGatherer._agent_parsed
    recent_events,\* GASStatusGatherer._recent_events
    new_events,   \* GASStatusGatherer._new_events
    watcher,      \* which watcher loop runs: "main" (_watch_files) or "notifier"
    wpc,          \* the watcher loop's position
    sent,         \* the messages the watcher broadcast in its latest tick
    seen,         \* history: the cache keys parsed so far
    ticked,       \* history: per path, the lines written when the watcher last looked
    fresh,        \* history: the lines appended between the latest two looks
    mon,          \* monitor_generation: the status it read, while the trigger tool runs
    faults,       \* write_json calls that raised OSError so far
    interrupted,  \* SIGINT has been delivered to the running command
    connections,  \* WebSocketManager._connections, as client ids
    subscriptions, \* per client: WebSocketConnection.subscriptions
    sock,         \* per client: its socket ("new", "open", "closed", "gone")
    lock,         \* WebSocketManager._lock: "free" or the task holding it
    bcast,        \* the broadcast in progress
    ping,         \* the iteration of _ping_connections in progress
    exported,     \* the output of the export command, reloaded with json.loads
    qres,         \* the latest query: its arguments, its result on the store and on the export
    chunk,        \* the content handed to the latest parse_output_content call, as lines
    parsing,      \* the ParsedOutput object the calls accumulate into, with raw_lines_count
    raised,       \* the latest parse_output_content call ended in an exception
    calls,        \* parse_output_content calls made so far
    _max_size,    \* BoundedParseCache._max_size
    touched,      \* history: the cached keys, the least recently touched by get or set first
    wm_pc2,       \* a second wave-manager.py advance on the same workspace: "idle" or "ready"
    ga_pc,        \* a get_all_content call's position: idle, or read (file read, lock not yet taken)
    ga_content,   \* the content that call read
    last          \* the operation that acted last, with its result

vars == <<fstate, mstate, agen, spc, wm_pc, gens, sstate, lpc, current_gen,
          exit_code, knowledge, manual, report, ks_ops, added, lastadd,
          files, tfiles, treads, returned, cache, access_order, _hits, _misses,
          agent_parsed, recent_events, new_events, watcher, wpc, sent, seen,
          ticked, fresh, mon, faults, interrupted,
          connections, subscriptions, sock, lock, bcast, ping,
          exported, qres,
          chunk, parsing, raised, calls,
          _max_size, touched,
          wm_pc2,
          ga_pc, ga_content,
          last>>
swarmVars == <<fstate, mstate, agen, spc, wm_pc>>
singleVars == <<gens, sstate, lpc, current_gen, exit_code, knowledge, manual>>
storeVars == <<ks_ops, added, lastadd>>
trackVars == <<files, tfiles, treads, returned>>
cacheVars == <<cache, access_order, _hits, _misses, seen>>
gatherVars == <<agent_parsed, recent_events, new_events, watcher, wpc, sent, ticked, fresh>>
dashVars == <<trackVars, cacheVars, gatherVars>>
toolVars == <<mon>>
faultVars == <<faults>>
signalVars == <<interrupted>>
wsVars == <<connections, subscriptions, sock, lock, bcast, ping>>
exportVars == <<exported, qres>>
parseVars == <<chunk, parsing, raised, calls>>
lruVars == <<_max_size, touched>>
waveVars == <<wm_pc2>>
readVars == <<ga_pc, ga_content>>
restVars == <<toolVars, faultVars, signalVars, wsVars, exportVars, parseVars, lruVars, waveVars, readVars>>
exceptTool == <<faultVars, signalVars, wsVars, exportVars, parseVars, lruVars, waveVars, readVars>>
exceptFault == <<toolVars, signalVars, wsVars, exportVars, parseVars, lruVars, waveVars, readVars>>
exceptSignal == <<toolVars, faultVars, wsVars, exportVars, parseVars, lruVars, waveVars, readVars>>
exceptWs == <<toolVars, faultVars, signalVars, exportVars, parseVars, lruVars, waveVars, readVars>>
exceptExport == <<toolVars, faultVars, signalVars, wsVars, parseVars, lruVars, waveVars, readVars>>
exceptParse == <<toolVars, faultVars, signalVars, wsVars, exportVars, lruVars, waveVars, readVars>>
exceptLru == <<toolVars, faultVars, signalVars, wsVars, exportVars, parseVars, waveVars, readVars>>
exceptWave == <<toolVars, faultVars, signalVars, wsVars, exportVars, parseVars, lruVars, readVars>>
exceptRead == <<toolVars, faultVars, signalVars, wsVars, exportVars, parseVars, lruVars, waveVars>>

\* ------------------------------------------------------------ rationals
\* Each operator hands its arguments to a function of the same name in lower
\* case: a function is applied to values, so an argument is worked out once.
gcd[a \in Nat, b \in Nat] == IF b = 0 THEN a ELSE gcd[b, a % b]
GCD(a, b) == gcd[a, b]

rat[n \in Nat, d \in Nat] ==
    LET g == gcd[n, d] IN IF n = 0 THEN <<0, 1>> ELSE <<n \div g, d \div g>>
Rat(n, d) == rat[n, d]
radd[x \in Nat \X Nat, y \in Nat \X Nat] == rat[x[1] * y[2] + y[1] * x[2], x[2] * y[2]]
RAdd(x, y) == radd[x, y]
rmul[x \in Nat \X Nat, y \in Nat \X Nat] == rat[x[1] * y[1], x[2] * y[2]]
RMul(x, y) == rmul[x, y]
rgt[x \in Nat \X Nat, y \in Nat \X Nat] == x[1] * y[2] > y[1] * x[2]
RGt(x, y) == rgt[x, y]
rmin1[x \in Nat \X Nat] == IF rgt[x, <<1, 1>>] THEN <<1, 1>> ELSE x
RMin1(x) == rmin1[x]

\* ------------------------------------------------- parts that do not run
\* no dashboard server: nothing is tracked and there are no output files
GathererIdle ==
    /\ cache = <<>>
    /\ access_order = <<>>
    /\ _hits = 0
    /\ _misses = 0
    /\ seen = {}
    /\ agent_parsed = <<>>
    /\ recent_events = <<>>
    /\ new_events = <<>>
    /\ watcher = "none"
    /\ wpc = "off"
    /\ sent = <<>>
    /\ ticked = <<>>
    /\ fresh = <<>>

DashIdle ==
    /\ files = <<>>
    /\ tfiles = <<>>
    /\ treads = <<>>
    /\ returned = <<>>
    /\ GathererIdle

ToolIdle ==
    /\ mon = "idle"

FaultIdle ==
    /\ faults = 0

SignalIdle ==
    /\ interrupted = FALSE

SocketIdle ==
    /\ connections = {}
    /\ subscriptions = <<>>
    /\ sock = <<>>
    /\ lock = "free"
    /\ bcast = <<>>
    /\ ping = <<>>

ExportIdle ==
    /\ exported = <<>>
    /\ qres = <<>>

ParseIdle ==
    /\ chunk = <<>>
    /\ parsing = [out |-> [total_events |-> 0, live_events |-> <<>>, last_activity |-> 0],
                  raw_lines_count |-> 0]
    /\ raised = FALSE
    /\ calls = 0

LruIdle ==
    /\ _max_size = max_size
    /\ touched = <<>>

WaveIdle ==
    /\ wm_pc2 = "idle"

ReadIdle ==
    /\ ga_pc = "idle"
    /\ ga_content = <<>>

RestIdle ==
    /\ ToolIdle
    /\ FaultIdle
    /\ SignalIdle
    /\ SocketIdle
    /\ ExportIdle
    /\ ParseIdle
    /\ LruIdle
    /\ WaveIdle
    /\ ReadIdle

\* ------------------------------------------- knowledge/store.json records
\* create_empty_store / the store written by init_workspace
create_empty_store ==
    [generations_completed |-> 0, success_patterns |-> <<>>, anti_patterns |-> <<>>,
     domain_knowledge |-> <<>>]

\* A learning of status.json as the list entry it becomes: the worker's dict as
\* written, so it carries no confidence and no occurrences key (raw), and its
\* pattern is the empty string when the worker gave none.
learning_entry(learning) ==
    [context |-> "", pattern |-> learning.pattern, confidence |-> 0,
     occurrences |-> 0, raw |-> TRUE]

\* ---------------------------------------------------- trigger evaluator
\* A status.json snapshot as the evaluator reads it: interactions, confidence
\* (hundredths), errors, and minutes since last_updated.
\* numeric: the counters are JSON numbers, as every writer of this repository
\* writes them.
Profiles ==
    { [interactions |-> 0,   confidence |-> 100, errors |-> 0,  stall |-> 0,
       numeric |-> TRUE],
      [interactions |-> 150, confidence |-> 35,  errors |-> 0,  stall |-> 10,
       numeric |-> TRUE],
      [interactions |-> 200, confidence |-> 60,  errors |-> 35, stall |-> 10,
       numeric |-> TRUE] }
FreshProfile ==
    [interactions |-> 0, confidence |-> 100, errors |-> 0, stall |-> 0,
     numeric |-> TRUE]

score_interactions(st) == RMin1(Rat(st.interactions, interaction_limit))
score_confidence(st) ==
    IF st.confidence >= confidence_min THEN <<0, 1>>
    ELSE Rat(confidence_min - st.confidence, confidence_min)
score_errors(st) ==
    LET total_actions == IF st.interactions > 1 THEN st.interactions ELSE 1
    IN RMin1(Rat(st.errors * 100, total_actions * error_rate_max))
score_stall(st) == RMin1(Rat(st.stall, stall_minutes))

weighted_score(st) ==
    RAdd(RAdd(RMul(score_interactions(st), <<W_interactions, 100>>),
              RMul(score_confidence(st), <<W_confidence, 100>>)),
         RAdd(RMul(score_errors(st), <<W_errors, 100>>),
              RMul(score_stall(st), <<W_stall, 100>>)))

evaluate_triggers(st) ==
    IF RGt(weighted_score(st), <<T_immediate, 100>>) THEN "immediate"
    ELSE IF RGt(weighted_score(st), <<T_soon, 100>>) THEN "soon"
    ELSE "none"

\* exit code of check-triggers.py for a readable status that is not terminal
trigger_exit(st) ==
    CASE evaluate_triggers(st) = "immediate" -> 2
      [] evaluate_triggers(st) = "soon" -> 1
      [] OTHER -> 0

\* gas-orchestrator.check_triggers: should_handoff from the script's exit code
check_triggers(st) == trigger_exit(st) \in {1, 2}

\* ------------------------------------------------------ swarm: workspace
\* decompose_task: the wave of the i-th role of common_roles
WaveOf == <<1, 2, 2, 2, 3, 4>>

decompose_task(n) ==
    [ total_waves |-> Cardinality({WaveOf[i] : i \in 1..n}),
      agents |-> [i \in 1..n |->
                    [wave |-> WaveOf[i], status |-> "pending", current_generation |-> 0]],
      waves |-> [w \in {WaveOf[i] : i \in 1..n} |->
                    [agents |-> {i \in 1..n : WaveOf[i] = w}, status |-> "pending",
                     started_at |-> FALSE, completed_at |-> FALSE]] ]

init_swarm(n) ==
    [ current_wave |-> 1,
      total_waves |-> decompose_task(n).total_waves,
      agents |-> decompose_task(n).agents,
      waves |-> decompose_task(n).waves ]

Complete == {"completed", "succeeded"}

\* ------------------------------------------- swarm: WaveManager (in memory)
get_wave_agents(st, w) == IF w \in DOMAIN st.waves THEN st.waves[w].agents ELSE {}

is_wave_complete_started(st, w) ==
    \A a \in get_wave_agents(st, w) : st.agents[a].status # "pending"
is_wave_complete(st, w) ==
    \A a \in get_wave_agents(st, w) : st.agents[a].status \in Complete

check_all_complete_wave(st) == is_wave_complete(st, st.current_wave)
check_all_complete(st) == \A a \in DOMAIN st.agents : st.agents[a].status \in Complete

\* WaveManager.advance_wave: whether it advances, and the state it then writes
swarm_can_advance(st) ==
    /\ st.current_wave < st.total_waves
    /\ is_wave_complete(st, st.current_wave)

swarm_advanced(st) ==
    [st EXCEPT !.current_wave = @ + 1,
               !.waves = [w \in DOMAIN @ |->
                            IF w = st.current_wave + 1
                            THEN [@[w] EXCEPT !.status = "running", !.started_at = TRUE]
                            ELSE @[w]]]

\* spawn_agent_generation(agent, 1) for every zero-generation agent of wave w
zero_gen_agents(st, w) == {a \in get_wave_agents(st, w) : st.agents[a].current_generation = 0}

spawned_state(st, as) ==
    [st EXCEPT !.agents = [a \in DOMAIN @ |->
                             IF a \in as
                             THEN [@[a] EXCEPT !.status = "running", !.current_generation = 1]
                             ELSE @[a]]]

fresh_generation == [n |-> 1, status |-> "running", prof |-> FreshProfile]
no_generation == [n |-> 0, status |-> "none", prof |-> FreshProfile]

spawned_dirs(dirs, as) == [a \in DOMAIN dirs |-> IF a \in as THEN fresh_generation ELSE dirs[a]]

\* --------------------------------------------------- swarm: run_swarm loop
\* Startup: read the state, spawn generation 1 for wave-1 agents, mark wave 1 running.
SwarmStart ==
    /\ spc = "start"
    /\ LET as == zero_gen_agents(fstate, 1)
           st1 == spawned_state(fstate, as)
           st2 == IF 1 \in DOMAIN st1.waves
                  THEN [st1 EXCEPT !.waves[1].status = "running", !.waves[1].started_at = TRUE]
                  ELSE st1
       IN /\ mstate' = st2
          /\ fstate' = st2
          /\ agen' = spawned_dirs(agen, as)
    /\ spc' = "tick"
    /\ last' = "swarm_start"
    /\ UNCHANGED <<wm_pc, report>>
    /\ UNCHANGED <<singleVars, storeVars, dashVars, restVars>>

\* Top of an iteration: refresh the state; finalize when every agent is complete.
SwarmRefresh ==
    /\ spc = "tick"
    /\ mstate' = fstate
    /\ IF check_all_complete(fstate)
       THEN /\ report' = TRUE
            /\ spc' = "done"
            /\ last' = "swarm_finalize"
       ELSE /\ report' = report
            /\ spc' = "advance"
            /\ last' = "swarm_refresh"
    /\ UNCHANGED <<fstate, agen, wm_pc>>
    /\ UNCHANGED <<singleVars, storeVars, dashVars, restVars>>

\* manager.advance_wave()
SwarmAdvance ==
    /\ spc = "advance"
    /\ IF swarm_can_advance(mstate)
       THEN /\ mstate' = swarm_advanced(mstate)
            /\ fstate' = swarm_advanced(mstate)
            /\ last' = "swarm_advance_true"
       ELSE /\ UNCHANGED <<mstate, fstate>>
            /\ last' = "swarm_advance_false"
    /\ spc' = "spawn"
    /\ UNCHANGED <<agen, wm_pc, report>>
    /\ UNCHANGED <<singleVars, storeVars, dashVars, restVars>>

\* Spawn generation 1 for the zero-generation agents of the current wave, then sleep.
SwarmSpawn ==
    /\ spc = "spawn"
    /\ LET as == zero_gen_agents(mstate, mstate.current_wave)
       IN /\ mstate' = spawned_state(mstate, as)
          /\ fstate' = IF as = {} THEN fstate ELSE spawned_state(mstate, as)
          /\ agen' = spawned_dirs(agen, as)
          /\ last' = IF as = {} THEN "swarm_sleep" ELSE "swarm_spawn"
    /\ spc' = "tick"
    /\ UNCHANGED <<wm_pc, report>>
    /\ UNCHANGED <<singleVars, storeVars, dashVars, restVars>>

\* ------------------------------------------------ swarm: wave-manager.py
wm_can_advance(st) ==
    /\ st.current_wave < st.total_waves
    /\ \A a \in get_wave_agents(st, st.current_wave) : st.agents[a].status \in Complete

wm_advanced(st) ==
    [st EXCEPT !.current_wave = @ + 1,
               !.waves = [w \in DOMAIN @ |->
                            IF w = st.current_wave + 1
                            THEN [@[w] EXCEPT !.status = "running", !.started_at = TRUE]
                            ELSE IF w = st.current_wave
                            THEN [@[w] EXCEPT !.status = "completed", !.completed_at = TRUE]
                            ELSE @[w]]]

\* advance_wave: can_advance_wave reads the state file
WMCheck ==
    /\ wm_pc = "idle"
    /\ IF wm_can_advance(fstate)
       THEN wm_pc' = "ready" /\ last' = "wm_check_true"
       ELSE wm_pc' = "idle" /\ last' = "wm_advance_false"
    /\ UNCHANGED <<fstate, mstate, agen, spc, report>>
    /\ UNCHANGED <<singleVars, storeVars, dashVars, restVars>>

\* advance_wave: the state file is read again and updated
WMApply ==
    /\ wm_pc = "ready"
    /\ fstate' = wm_advanced(fstate)
    /\ wm_pc' = "idle"
    /\ last' = "wm_advance_true"
    /\ UNCHANGED <<mstate, agen, spc, report>>
    /\ UNCHANGED <<singleVars, storeVars, dashVars, restVars>>

\* spawn_wave_agents(gas_dir, wave)
WMSpawn(w) ==
    /\ LET as == zero_gen_agents(fstate, w)
       IN /\ as # {}
          /\ fstate' = spawned_state(fstate, as)
          /\ agen' = spawned_dirs(agen, as)
    /\ last' = "wm_spawn"
    /\ UNCHANGED <<mstate, spc, wm_pc, report>>
    /\ UNCHANGED <<singleVars, storeVars, dashVars, restVars>>

\* ------------------------------------------------------- swarm: workers
\* The worker of agent a rewrites its status.json; a terminal status is
\* mirrored into the agent's record of gas-state.json.
WorkerAgent(a, s, p) ==
    /\ a \in DOMAIN agen
    /\ agen[a].n >= 1
    /\ agen[a].status = "running"
    /\ s = "running" => p.interactions > agen[a].prof.interactions
    /\ s # "running" => p = agen[a].prof
    /\ agen' = [agen EXCEPT ![a].status = s, ![a].prof = p]
    /\ fstate' = IF s = "running" THEN fstate
                 ELSE [fstate EXCEPT !.agents[a].status = s]
    /\ last' = "worker"
    /\ UNCHANGED <<mstate, spc, wm_pc, report>>
    /\ UNCHANGED <<singleVars, storeVars, dashVars, restVars>>

SwarmLoop == SwarmStart \/ SwarmRefresh \/ SwarmAdvance \/ SwarmSpawn

InitSwarm ==
    /\ \E n \in 1..MaxAgents :
          /\ fstate = init_swarm(n)
          /\ mstate = init_swarm(n)
          /\ agen = [a \in 1..n |-> no_generation]
    /\ spc = "start"
    /\ wm_pc = "idle"
    /\ gens = <<>>
    /\ sstate = [current_generation |-> 0, total_generations |-> 0]
    /\ lpc = "off"
    /\ current_gen = 0
    /\ exit_code = -1
    /\ knowledge = create_empty_store
    /\ ks_ops = 0
    /\ added = {}
    /\ lastadd = <<>>
    /\ DashIdle
    /\ RestIdle
    /\ manual = 0
    /\ report = FALSE
    /\ last = "init"

NextSwarm ==
    \/ SwarmStart
    \/ SwarmRefresh
    \/ SwarmAdvance
    \/ SwarmSpawn
    \/ WMCheck
    \/ WMApply
    \/ \E w \in 1..MaxAgents : WMSpawn(w)
    \/ \E a \in 1..MaxAgents, s \in {"running", "completed", "failed"}, p \in Profiles :
          WorkerAgent(a, s, p)

SpecSwarm == InitSwarm /\ [][NextSwarm]_vars

SpecSwarmFair == InitSwarm /\ [][NextSwarm]_vars /\ WF_vars(SwarmLoop)

\* ------------------------------------------- single mode: generations
no_gen == [exists |-> FALSE, status |-> "none", succeeded_to |-> 0, transfer |-> 0,
           task_complete |-> FALSE, prof |-> FreshProfile]

\* create_transfer_document(N): the document's meta.child_generation
create_transfer_document(n) == n + 1

\* spawn_generation(N, transfer_doc) on the generation directories: status.json is
\* rewritten; transfer.json is written into gen-N when a document is given (tr # 0)
spawn_generation_dirs(gs, n, tr) ==
    [gs EXCEPT ![n] = [exists |-> TRUE, status |-> "pending", succeeded_to |-> 0,
                       transfer |-> IF tr # 0 THEN tr ELSE gs[n].transfer,
                       task_complete |-> FALSE, prof |-> FreshProfile]]

\* spawn_generation(N, ...) on gas-state.json
spawn_generation_state(st, n) ==
    [current_generation |-> n,
     total_generations |-> IF st.total_generations > n THEN st.total_generations ELSE n]

\* handle_succession(N) on the generation directories
handle_succession_dirs(gs, n) ==
    [spawn_generation_dirs(gs, n + 1, create_transfer_document(n))
        EXCEPT ![n].status = "succeeded", ![n].succeeded_to = n + 1]

\* consolidate_learnings(N) on the knowledge store: every learning of the
\* generation's status.json is appended to the list its type names
RECURSIVE append_learnings(_, _)
append_learnings(k, learnings) ==
    IF learnings = <<>> THEN k
    ELSE LET learning == Head(learnings)
             key == IF learning.type = "success_pattern" THEN "success_patterns"
                    ELSE IF learning.type = "anti_pattern" THEN "anti_patterns"
                    ELSE "domain_knowledge"
         IN append_learnings([k EXCEPT ![key] = Append(@, learning_entry(learning))],
                             Tail(learnings))

consolidate_learnings(k, learnings) ==
    [append_learnings(k, learnings) EXCEPT !.generations_completed = @ + 1]

\* monitor_generation(N)
monitor_generation(gs, n) ==
    IF ~gs[n].exists THEN "unknown"
    ELSE IF gs[n].status \in {"completed", "failed", "needs_succession"} THEN gs[n].status
    ELSE IF check_triggers(gs[n].prof) THEN "needs_succession"
    ELSE gs[n].status

\* the completed generation ends the run
task_complete_never(gs, n) == FALSE
task_complete(gs, n) == gs[n].task_complete

\* ------------------------------------ single mode: run_orchestrator loop
\* Before the loop: spawn generation 1 when the workspace has none.
LoopStart ==
    /\ lpc = "start"
    /\ IF sstate.current_generation = 0
       THEN /\ gens' = spawn_generation_dirs(gens, 1, 0)
            /\ sstate' = spawn_generation_state(sstate, 1)
            /\ current_gen' = 1
       ELSE /\ UNCHANGED <<gens, sstate>>
            /\ current_gen' = sstate.current_generation
    /\ lpc' = "loop"
    /\ last' = "loop_start"
    /\ UNCHANGED <<exit_code, knowledge, manual, report>>
    /\ UNCHANGED <<swarmVars, storeVars, dashVars, restVars>>

\* completed and task_complete: final report, the loop ends and run returns
LoopCompletedDone ==
    /\ lpc = "loop"
    /\ monitor_generation(gens, current_gen) = "completed"
    /\ task_complete(gens, current_gen)
    /\ knowledge' = consolidate_learnings(knowledge, <<>>)
    /\ report' = TRUE
    /\ lpc' = "stopped"
    /\ exit_code' = 0
    /\ last' = "loop_task_complete"
    /\ UNCHANGED <<gens, sstate, current_gen, manual>>
    /\ UNCHANGED <<swarmVars, storeVars, dashVars, restVars>>

\* completed without task_complete: consolidate, then handle_succession.  The code
\* has no limit on the generation number; top caps it for the check.
LoopCompletedNextUpTo(top) ==
    /\ lpc = "loop"
    /\ current_gen < top
    /\ monitor_generation(gens, current_gen) = "completed"
    /\ ~task_complete(gens, current_gen)
    /\ knowledge' = consolidate_learnings(consolidate_learnings(knowledge, <<>>), <<>>)
    /\ gens' = handle_succession_dirs(gens, current_gen)
    /\ sstate' = spawn_generation_state(sstate, current_gen + 1)
    /\ current_gen' = current_gen + 1
    /\ last' = "loop_completed_succession"
    /\ UNCHANGED <<lpc, exit_code, manual, report>>
    /\ UNCHANGED <<swarmVars, storeVars, dashVars, restVars>>

LoopCompletedNext == LoopCompletedNextUpTo(MaxGen)

\* needs_succession: handle_succession
LoopSuccessionUpTo(top) ==
    /\ lpc = "loop"
    /\ current_gen < top
    /\ monitor_generation(gens, current_gen) = "needs_succession"
    /\ knowledge' = consolidate_learnings(knowledge, <<>>)
    /\ gens' = handle_succession_dirs(gens, current_gen)
    /\ sstate' = spawn_generation_state(sstate, current_gen + 1)
    /\ current_gen' = current_gen + 1
    /\ last' = "loop_succession"
    /\ UNCHANGED <<lpc, exit_code, manual, report>>
    /\ UNCHANGED <<swarmVars, storeVars, dashVars, restVars>>

LoopSuccession == LoopSuccessionUpTo(MaxGen)

\* failed: the loop ends and run returns
LoopFailed ==
    /\ lpc = "loop"
    /\ monitor_generation(gens, current_gen) = "failed"
    /\ lpc' = "stopped"
    /\ exit_code' = 0
    /\ last' = "loop_failed"
    /\ UNCHANGED <<gens, sstate, current_gen, knowledge, manual, report>>
    /\ UNCHANGED <<swarmVars, storeVars, dashVars, restVars>>

\* anything else: sleep poll_interval_seconds
LoopPoll ==
    /\ lpc = "loop"
    /\ monitor_generation(gens, current_gen) \notin {"completed", "needs_succession", "failed"}
    /\ last' = "loop_poll"
    /\ UNCHANGED <<gens, sstate, lpc, current_gen, exit_code, knowledge, manual, report>>
    /\ UNCHANGED <<swarmVars, storeVars, dashVars, restVars>>

\* the spawn command: spawn_generation(gas_dir, generation, agent) with no transfer;
\* g = 0 stands for no --generation (current generation + 1)
ManualSpawn(g) ==
    /\ manual < MaxManual
    /\ manual' = manual + 1
    /\ LET n == IF g = 0 THEN sstate.current_generation + 1 ELSE g
       IN /\ n <= MaxGen
          /\ gens' = spawn_generation_dirs(gens, n, 0)
          /\ sstate' = spawn_generation_state(sstate, n)
    /\ last' = "manual_spawn"
    /\ UNCHANGED <<lpc, current_gen, exit_code, knowledge, report>>
    /\ UNCHANGED <<swarmVars, storeVars, dashVars, restVars>>

\* The worker of generation g rewrites its status.json.
WorkerGen(g, s, tc, p) ==
    /\ gens[g].exists
    /\ gens[g].status \in {"pending", "running"}
    /\ tc => s = "completed"
    /\ s = "running" => p.interactions > gens[g].prof.interactions \/ gens[g].status = "pending"
    /\ s # "running" => p = gens[g].prof
    /\ gens' = [gens EXCEPT ![g].status = s, ![g].task_complete = tc, ![g].prof = p]
    /\ last' = "worker"
    /\ UNCHANGED <<sstate, lpc, current_gen, exit_code, knowledge, manual, report>>
    /\ UNCHANGED <<swarmVars, storeVars, dashVars, restVars>>

InitSingle ==
    /\ gens = [g \in 1..MaxGen |-> no_gen]
    /\ sstate = [current_generation |-> 0, total_generations |-> 0]
    /\ lpc = "start"
    /\ current_gen = 0
    /\ exit_code = -1
    /\ knowledge = create_empty_store
    /\ ks_ops = 0
    /\ added = {}
    /\ lastadd = <<>>
    /\ DashIdle
    /\ RestIdle
    /\ manual = 0
    /\ report = FALSE
    /\ last = "init"
    /\ fstate = init_swarm(1)
    /\ mstate = init_swarm(1)
    /\ agen = <<no_generation>>
    /\ spc = "off"
    /\ wm_pc = "off"

NextSingle ==
    \/ LoopStart
    \/ LoopCompletedDone
    \/ LoopCompletedNext
    \/ LoopSuccession
    \/ LoopFailed
    \/ LoopPoll
    \/ \E g \in 0..MaxGen : ManualSpawn(g)
    \/ \E g \in 1..MaxGen, s \in {"running", "completed", "failed", "needs_succession"},
          tc \in BOOLEAN, p \in Profiles : WorkerGen(g, s, tc, p)

SpecSingle == InitSingle /\ [][NextSingle]_vars

\* ------------------------------------------------ knowledge-store.py
\* DEFAULT_CONFIG: confidences in hundredths
default_confidence == 75
promotion_threshold == 3
promotion_step == 5

Kinds == {"success_pattern", "anti_pattern", "domain_knowledge"}
Contexts == {"api", "db"}
\* pattern texts, as character sequences
Patterns == {<<"a">>, <<"A", "b">>, <<"c">>, <<"d">>}
Confidences == {60, default_confidence}
\* the learnings a generation can report: a type and a pattern text (empty: no
\* "pattern" key)
Learnings == [type : {"success_pattern", "anti_pattern", "insight"},
              pattern : {<<>>, <<"c">>}]

\* str.lower()
lower(s) == [i \in 1..Len(s) |-> IF s[i] = "A" THEN "a" ELSE s[i]]

\* Python's  s in t  on strings
IsInfix(s, t) ==
    \E i \in 0..(Len(t) - Len(s)) : SubSeq(t, i + 1, i + Len(s)) = s

\* find_similar_pattern looks the list up under pattern_type + "s" unless the type
\* already ends in "s"; a key the store does not have reads as the empty list
similar_key(pattern_type) ==
    IF pattern_type = "success_pattern" THEN "success_patterns"
    ELSE IF pattern_type = "anti_pattern" THEN "anti_patterns"
    ELSE "domain_knowledges"

store_get(store, key) == IF key \in DOMAIN store THEN store[key] ELSE <<>>

\* find_similar_pattern: the index of the first similar entry of the list, 0 for None
find_similar_pattern(store, pattern_type, pattern) ==
    LET patterns == store_get(store, similar_key(pattern_type))
        pattern_lower == lower(pattern)
        hits == {i \in 1..Len(patterns) :
                    LET existing == lower(patterns[i].pattern)
                    IN \/ existing = pattern_lower
                       \/ IsInfix(existing, pattern_lower)
                       \/ IsInfix(pattern_lower, existing)}
    IN IF hits = {} THEN 0 ELSE CHOOSE i \in hits : \A j \in hits : i <= j

\* x.get("confidence", 0)
confidence_or_0(p) == IF p.raw THEN 0 ELSE p.confidence

\* sorted(patterns, key=confidence, reverse=True): stable, so equal confidences keep
\* their list order
RECURSIVE sorted_by_confidence(_)
sorted_by_confidence(patterns) ==
    IF patterns = <<>> THEN <<>>
    ELSE LET n == Len(patterns)
             x == patterns[n]
             rest == sorted_by_confidence(SubSeq(patterns, 1, n - 1))
             k == Cardinality({i \in 1..(n - 1) :
                                  confidence_or_0(rest[i]) >= confidence_or_0(x)})
         IN SubSeq(rest, 1, k) \o <<x>> \o SubSeq(rest, k + 1, n - 1)

\* prune_by_confidence
prune_by_confidence_keep_all(patterns, max_count) == sorted_by_confidence(patterns)
prune_by_confidence(patterns, max_count) ==
    LET sorted_patterns == sorted_by_confidence(patterns)
    IN SubSeq(sorted_patterns, 1,
              IF Len(sorted_patterns) < max_count THEN Len(sorted_patterns) ELSE max_count)

\* the list add_pattern appends to, and its cap
list_key(pattern_type) ==
    IF pattern_type = "success_pattern" THEN "success_patterns"
    ELSE IF pattern_type = "anti_pattern" THEN "anti_patterns"
    ELSE "domain_knowledge"

max_of(pattern_type) ==
    IF pattern_type = "success_pattern" THEN max_success_patterns
    ELSE IF pattern_type = "anti_pattern" THEN max_anti_patterns
    ELSE max_domain_knowledge

\* add_pattern raises KeyError when it promotes an entry without a confidence key
add_pattern_raises(store, pattern_type, pattern) ==
    LET i == find_similar_pattern(store, pattern_type, pattern)
    IN /\ i # 0
       /\ LET existing == store[similar_key(pattern_type)][i]
          IN existing.raw /\ (IF existing.occurrences = 0 THEN 1 ELSE existing.occurrences) + 1
                                >= promotion_threshold

\* add_pattern: the store after the call
add_pattern(store, pattern_type, context, pattern, confidence) ==
    LET i == find_similar_pattern(store, pattern_type, pattern)
    IN IF i # 0
       THEN LET existing == store[similar_key(pattern_type)][i]
                occ == (IF existing.occurrences = 0 THEN 1 ELSE existing.occurrences) + 1
                conf == IF occ >= promotion_threshold
                        THEN (IF existing.confidence + promotion_step > 100 THEN 100
                              ELSE existing.confidence + promotion_step)
                        ELSE existing.confidence
            IN [store EXCEPT ![similar_key(pattern_type)][i] =
                                 [existing EXCEPT !.occurrences = occ, !.confidence = conf]]
       ELSE LET entry == [context |-> context, pattern |-> pattern,
                          confidence |-> confidence, occurrences |-> 1, raw |-> FALSE]
                grown == Append(store[list_key(pattern_type)], entry)
            IN [store EXCEPT ![list_key(pattern_type)] =
                                 IF Len(grown) > max_of(pattern_type)
                                 THEN prune_by_confidence(grown, max_of(pattern_type))
                                 ELSE grown]

\* knowledge-store.py add: read_store, add_pattern, write_store.  When add_pattern
\* raises, the command dies before write_store and the file keeps its content.
KSAdd(pattern_type, context, pattern, confidence) ==
    /\ ks_ops < MaxStoreOps
    /\ knowledge' = IF add_pattern_raises(knowledge, pattern_type, pattern) THEN knowledge
                    ELSE add_pattern(knowledge, pattern_type, context, pattern, confidence)
    /\ ks_ops' = ks_ops + 1
    /\ added' = added \cup {<<pattern_type, context, pattern>>}
    /\ lastadd' = <<pattern_type, context, pattern>>
    /\ last' = "ks_add"
    /\ UNCHANGED <<gens, sstate, lpc, current_gen, exit_code, manual, report>>
    /\ UNCHANGED <<swarmVars, dashVars, restVars>>

\* the orchestrator consolidates the learnings of a finished generation (on
\* succession and on completion)
KSConsolidate(learnings) ==
    /\ ks_ops < MaxStoreOps
    /\ knowledge' = consolidate_learnings(knowledge, learnings)
    /\ ks_ops' = ks_ops + 1
    /\ last' = "ks_consolidate"
    /\ UNCHANGED <<added, lastadd>>
    /\ UNCHANGED <<gens, sstate, lpc, current_gen, exit_code, manual, report>>
    /\ UNCHANGED <<swarmVars, dashVars, restVars>>

InitKnowledge ==
    /\ knowledge = create_empty_store
    /\ ks_ops = 0
    /\ added = {}
    /\ lastadd = <<>>
    /\ DashIdle
    /\ RestIdle
    /\ last = "init"
    /\ gens = <<>>
    /\ sstate = [current_generation |-> 0, total_generations |-> 0]
    /\ lpc = "off"
    /\ current_gen = 0
    /\ exit_code = -1
    /\ manual = 0
    /\ report = FALSE
    /\ fstate = init_swarm(1)
    /\ mstate = init_swarm(1)
    /\ agen = <<no_generation>>
    /\ spc = "off"
    /\ wm_pc = "off"

NextKnowledge ==
    \/ \E t \in Kinds, c \in Contexts, p \in Patterns, f \in Confidences : KSAdd(t, c, p, f)
    \/ \E l \in Learnings : KSConsolidate(<<l>>)
    \/ KSConsolidate(<<>>)

SpecKnowledge == InitKnowledge /\ [][NextKnowledge]_vars

\* no orchestrator and no store command: only the dashboard server runs
OrchestratorIdle ==
    /\ fstate = init_swarm(1)
    /\ mstate = init_swarm(1)
    /\ agen = <<no_generation>>
    /\ spc = "off"
    /\ wm_pc = "off"
    /\ gens = <<>>
    /\ sstate = [current_generation |-> 0, total_generations |-> 0]
    /\ lpc = "off"
    /\ current_gen = 0
    /\ exit_code = -1
    /\ manual = 0
    /\ report = FALSE
    /\ knowledge = create_empty_store
    /\ ks_ops = 0
    /\ added = {}
    /\ lastadd = <<>>

\* ------------------------------------------------------- watched files
\* A file is a sequence of NDJSON lines, one event each; offsets and sizes count
\* lines.  An event is its serial number in the file's write history and its
\* timestamp.  written and truncs count the appends and truncations so far; cut is
\* the serial number reached at the latest truncation and trunc_pending says that
\* no get_new_content has looked at the file since (history).
Paths == {"p1", "p2", "p3"}
TimeStamps == 1..MaxTs

new_file(content) ==
    [exists |-> TRUE, content |-> content, mtime |-> 1, written |-> Len(content),
     truncs |-> 0, cut |-> 0, trunc_pending |-> FALSE]
no_file ==
    [exists |-> FALSE, content |-> <<>>, mtime |-> 0, written |-> 0,
     truncs |-> 0, cut |-> 0, trunc_pending |-> FALSE]

\* the worker appends one line
WorkerAppend(p, ts) ==
    /\ files[p].exists
    /\ files[p].written < MaxEvents
    /\ files' = [files EXCEPT ![p].content = Append(@, [id |-> files[p].written + 1, ts |-> ts]),
                              ![p].written = @ + 1,
                              ![p].mtime = @ + 1]
    /\ last' = <<"append", p>>

\* the file is cut back to its first k lines (k = 0: rotation)
WorkerTruncate(p, k) ==
    /\ files[p].exists
    /\ files[p].truncs < MaxTruncs
    /\ k < Len(files[p].content)
    /\ files' = [files EXCEPT ![p].content = SubSeq(@, 1, k),
                              ![p].truncs = @ + 1,
                              ![p].mtime = @ + 1,
                              ![p].cut = files[p].written,
                              ![p].trunc_pending = TRUE]
    /\ last' = <<"truncate", p>>

\* ------------------------------------------- file_tracker.py: FilePositionTracker
\* FileState(path): position, last_modified, last_size, line_count (last_read is
\* the place in treads)
FileState == [position |-> 0, last_modified |-> 0, last_size |-> 0, line_count |-> 0]

\* the last_read order after path p is read now
touch(order, p) == SelectSeq(order, LAMBDA q : q # p) \o <<p>>

\* _ensure_capacity: at max_files, the entry with the oldest last_read is deleted
_ensure_capacity(T) ==
    IF Cardinality(DOMAIN T.files) >= max_files
    THEN LET oldest == Head(T.order)
         IN [files |-> [q \in DOMAIN T.files \ {oldest} |-> T.files[q]],
             order |-> Tail(T.order)]
    ELSE T

\* "if file_path not in self._files": make room and create the entry
get_or_create(T, p) ==
    IF p \in DOMAIN T.files THEN T
    ELSE LET E == _ensure_capacity(T)
         IN [files |-> (p :> FileState) @@ E.files, order |-> E.order]

\* the position a read starts from: 0 when the file shrank below last_size
start_position_no_reset(state, size) == state.position
start_position(state, size) == IF size < state.last_size THEN 0 ELSE state.position

\* get_new_content(file_path): the tracker afterwards, the returned buffer and flag,
\* and whether the position was reset.  A seek past the end reads nothing and
\* leaves the position where it was.
get_new_content(T, fs, p) ==
    IF ~fs[p].exists
    THEN [T |-> T, content |-> <<>>, changed |-> FALSE, reset |-> FALSE, read |-> FALSE]
    ELSE LET T1 == get_or_create(T, p)
             state == T1.files[p]
             current_size == Len(fs[p].content)
             current_mtime == fs[p].mtime
         IN IF current_mtime = state.last_modified /\ current_size = state.last_size
            THEN [T |-> T1, content |-> <<>>, changed |-> FALSE, reset |-> FALSE,
                  read |-> FALSE]
            ELSE LET reset == current_size < state.last_size
                     pos == start_position(state, current_size)
                     new_content == SubSeq(fs[p].content, pos + 1, current_size)
                     tell == IF pos > current_size THEN pos ELSE current_size
                     state2 == [position |-> tell,
                                last_modified |-> current_mtime,
                                last_size |-> current_size,
                                line_count |-> (IF reset THEN 0 ELSE state.line_count)
                                               + Len(new_content)]
                 IN [T |-> [files |-> [T1.files EXCEPT ![p] = state2],
                            order |-> touch(T1.order, p)],
                     content |-> new_content, changed |-> new_content # <<>>,
                     reset |-> reset, read |-> TRUE]

\* get_all_content(file_path): the tracker afterwards and the content read
get_all_content(T, fs, p) ==
    IF ~fs[p].exists THEN [T |-> T, content |-> <<>>]
    ELSE LET T1 == get_or_create(T, p)
         IN [T |-> [files |-> [T1.files EXCEPT ![p].position = Len(fs[p].content)],
                    order |-> touch(T1.order, p)],
             content |-> fs[p].content]

Tracker == [files |-> tfiles, order |-> treads]

\* history of the buffers handed out for p: restarted by a truncation reset.  No
\* file is longer than MaxEvents, so the history is kept up to MaxEvents + 1 lines:
\* a longer one differs from every file content just as its first MaxEvents + 1
\* lines do.
returned_after(r, old) ==
    LET all == IF r.reset THEN r.content ELSE old \o r.content
    IN SubSeq(all, 1, IF Len(all) > MaxEvents + 1 THEN MaxEvents + 1 ELSE Len(all))

GetNewContent(p) ==
    LET r == get_new_content(Tracker, files, p)
    IN /\ tfiles' = r.T.files
       /\ treads' = r.T.order
       /\ returned' = [returned EXCEPT ![p] = returned_after(r, @)]
       /\ files' = IF r.read THEN [files EXCEPT ![p].trunc_pending = FALSE] ELSE files
       /\ last' = <<"get_new_content", p, r.reset, r.content>>

GetAllContent(p) ==
    LET r == get_all_content(Tracker, files, p)
    IN /\ tfiles' = r.T.files
       /\ treads' = r.T.order
       /\ returned' = [returned EXCEPT ![p] = r.content]
       /\ UNCHANGED files
       /\ last' = <<"get_all_content", p>>

\* A tracker used on three files, one of which a worker writes.
InitTracker ==
    /\ files = [p \in Paths |-> IF p = "p1" THEN new_file(<<>>)
                                ELSE new_file(<<[id |-> 1, ts |-> 1]>>)]
    /\ tfiles = <<>>
    /\ treads = <<>>
    /\ returned = [p \in Paths |-> <<>>]
    /\ last = <<"init">>
    /\ OrchestratorIdle
    /\ RestIdle
    /\ GathererIdle

TrackerEnv ==
    /\ \/ WorkerAppend("p1", 1)
       \/ \E k \in 0..MaxEvents : WorkerTruncate("p1", k)
    /\ UNCHANGED <<tfiles, treads, returned>>

TrackerCall == \E p \in Paths : GetNewContent(p) \/ GetAllContent(p)

NextTracker ==
    /\ TrackerEnv \/ TrackerCall
    /\ UNCHANGED <<swarmVars, singleVars, storeVars, report, cacheVars, gatherVars, restVars>>

SpecTracker == InitTracker /\ [][NextTracker]_vars

\* ------------------------------------------- file_tracker.py: BoundedParseCache
\* the key f"{output_file}:{os.path.getmtime(output_file)}"
cache_key(fs, p) == <<p, fs[p].mtime>>

Cache == [cache |-> cache, order |-> access_order, hits |-> _hits, misses |-> _misses,
          max_size |-> _max_size]

without(order, key) == SelectSeq(order, LAMBDA k : k # key)
drop(f, key) == [k \in DOMAIN f \ {key} |-> f[k]]

\* get(key): a hit moves the key to the end of _access_order
cache_get_no_touch(C, key) ==
    IF key \in DOMAIN C.cache
    THEN [C EXCEPT !.hits = @ + 1]
    ELSE [C EXCEPT !.misses = @ + 1]
cache_get(C, key) ==
    IF key \in DOMAIN C.cache
    THEN [C EXCEPT !.order = Append(without(@, key), key), !.hits = @ + 1]
    ELSE [C EXCEPT !.misses = @ + 1]

\* set(key, value): a new key at max_size first removes _access_order[0]
cache_set(C, key, value) ==
    LET C1 == IF key \in DOMAIN C.cache
              THEN [C EXCEPT !.order = without(@, key)]
              ELSE IF Cardinality(DOMAIN C.cache) >= C.max_size
              THEN LET oldest == Head(C.order)
                   IN [C EXCEPT !.order = Tail(@), !.cache = drop(@, oldest)]
              ELSE C
    IN [C1 EXCEPT !.cache = (key :> value) @@ C1.cache, !.order = Append(@, key)]

\* ----------------------------------------------------------- output_parser.py
\* ParsedOutput(): the fields the gatherer's bookkeeping depends on; last_activity
\* 0 is None
ParsedOutput == [total_events |-> 0, live_events |-> <<>>, last_activity |-> 0]

\* format_event_for_display: the display text is made from the event's payload,
\* which its serial number stands for
format_event_for_display(event) == [timestamp |-> event.ts, content |-> event.id]

\* one turn of the loop "for line in lines"
parse_line(result, event) ==
    LET live == Append(result.live_events, format_event_for_display(event))
    IN [total_events |-> result.total_events + 1,
        last_activity |-> IF result.last_activity = 0 \/ event.ts > result.last_activity
                          THEN event.ts ELSE result.last_activity,
        live_events |-> IF Len(live) > MAX_LIVE_EVENTS THEN Tail(live) ELSE live]

\* parse_output_content(content, existing_parsed)
RECURSIVE parse_output_content(_, _)
parse_output_content(content, existing_parsed) ==
    IF content = <<>> THEN existing_parsed
    ELSE parse_output_content(Tail(content), parse_line(existing_parsed, Head(content)))

\* ------------------------------------------- gas_status.py: GASStatusGatherer
\* _find_agent_output_files: the output files that exist
OutputFiles(fs) == {p \in Paths : fs[p].exists}

\* list(set(output_files)): the files come in an order the program does not choose
Orders(S) == {o \in [1..Cardinality(S) -> S] : \A i, j \in DOMAIN o : o[i] = o[j] => i = j}

\* _extract_agent_id: every output file lies in its own agent's directory
_extract_agent_id(p) ==
    IF p = "p1" THEN "agent-1" ELSE IF p = "p2" THEN "agent-2" ELSE "agent-3"

\* s[-n:]
LastN(s, n) == IF Len(s) > n THEN SubSeq(s, Len(s) - n + 1, Len(s)) ELSE s

\* the events check_for_changes pushes: parsed.live_events[-10:] with the agent id
pushed_all(parsed, agent_id) ==
    [i \in 1..Len(parsed.live_events) |->
        [timestamp |-> parsed.live_events[i].timestamp,
         content |-> parsed.live_events[i].content, agent_id |-> agent_id]]
pushed(parsed, agent_id) == LastN(pushed_all(parsed, agent_id), LiveTail)

Gatherer ==
    [T |-> Tracker, C |-> Cache, parsed |-> agent_parsed, recent |-> recent_events,
     new |-> new_events, has_changes |-> FALSE, read |-> {}, missed |-> <<>>,
     agents |-> <<>>]

\* check_for_changes, one turn of "for output_file in output_files"
check_file(G, fs, p) ==
    LET r == get_new_content(G.T, fs, p)
        G1 == [G EXCEPT !.T = r.T, !.read = IF r.read THEN @ \cup {p} ELSE @]
    IN IF ~r.changed THEN G1
       ELSE LET agent_id == _extract_agent_id(p)
                existing == IF agent_id \in DOMAIN G.parsed THEN G.parsed[agent_id]
                            ELSE ParsedOutput
                parsed == parse_output_content(r.content, existing)
                events == pushed(parsed, agent_id)
            IN [G1 EXCEPT !.parsed = (agent_id :> parsed) @@ @,
                          !.new = @ \o events,
                          !.recent = @ \o events,
                          !.has_changes = TRUE]

RECURSIVE check_files(_, _, _)
check_files(G, fs, order) ==
    IF order = <<>> THEN G
    ELSE check_files(check_file(G, fs, Head(order)), fs, Tail(order))

\* check_for_changes: the gas-state file (absent here), then every output file,
\* then the trim of _recent_events
check_for_changes(G, fs, order) ==
    LET G1 == check_files(G, fs, order)
    IN [G1 EXCEPT !.recent = IF Len(@) > MAX_LIVE_EVENTS * 2
                             THEN LastN(@, MAX_LIVE_EVENTS) ELSE @]

\* _parse_agent_output(output_file, agent_id)
_parse_agent_output(G, fs, p) ==
    LET key == cache_key(fs, p)
        agent_id == _extract_agent_id(p)
        C1 == cache_get(G.C, key)
    IN IF key \in DOMAIN G.C.cache
       THEN [G EXCEPT !.C = C1, !.agents = (agent_id :> G.C.cache[key]) @@ @]
       ELSE LET r == get_all_content(G.T, fs, p)
                parsed == parse_output_content(r.content, ParsedOutput)
            IN [G EXCEPT !.C = cache_set(C1, key, parsed),
                         !.T = r.T,
                         !.parsed = (agent_id :> parsed) @@ @,
                         !.missed = Append(@, p),
                         !.agents = (agent_id :> parsed) @@ @]

\* _gather_agent_statuses: no agent is configured (there is no gas-state.json), so
\* every agent is discovered from its output file
RECURSIVE _gather_agent_statuses(_, _, _)
_gather_agent_statuses(G, fs, order) ==
    IF order = <<>> THEN G
    ELSE _gather_agent_statuses(_parse_agent_output(G, fs, Head(order)), fs, Tail(order))

\* get_full_status: the part of the snapshot that comes from the output files
get_full_status(G) ==
    [a \in DOMAIN G.agents |-> [last_activity |-> G.agents[a].last_activity,
                                total_events |-> G.agents[a].total_events]]

\* the lines of the files with a serial number above since[p], file by file
RECURSIVE appended_since(_, _, _)
appended_since(fs, since, order) ==
    IF order = <<>> THEN <<>>
    ELSE LET p == Head(order)
         IN SelectSeq(fs[p].content, LAMBDA e : e.id > since[p])
            \o appended_since(fs, since, Tail(order))

\* the time on the worker's clock: it never runs backward
clock(p) == IF files[p].written + 1 > MaxTs THEN MaxTs ELSE files[p].written + 1

StoreGatherer(G) ==
    /\ tfiles' = G.T.files
    /\ treads' = G.T.order
    /\ cache' = G.C.cache
    /\ access_order' = G.C.order
    /\ _hits' = G.C.hits
    /\ _misses' = G.C.misses
    /\ agent_parsed' = G.parsed
    /\ recent_events' = G.recent
    /\ new_events' = G.new

\* one tick of the watcher loop, first half: check_for_changes
WatchCheck ==
    /\ wpc = "poll"
    /\ \E order \in Orders(OutputFiles(files)) :
          LET G == check_for_changes(Gatherer, files, order)
          IN /\ StoreGatherer(G)
             /\ files' = [p \in Paths |->
                            IF p \in G.read THEN [files[p] EXCEPT !.trunc_pending = FALSE]
                            ELSE files[p]]
             /\ wpc' = IF G.has_changes THEN "changed" ELSE "poll"
             /\ fresh' = appended_since(files, ticked, order)
             /\ ticked' = [p \in Paths |-> files[p].written]
             /\ last' = <<"check", G.has_changes>>
    /\ UNCHANGED <<returned, seen, watcher, sent>>

live_event(e) == [type |-> "live_event", data |-> e]
status_update(status) == [type |-> "status_update", data |-> status]

\* second half, on a change: get_full_status and broadcast_status_update;
\* FileChangeNotifier.start also drains get_new_events into broadcast_live_event
WatchBroadcast ==
    /\ wpc = "changed"
    /\ _hits + _misses + Cardinality(OutputFiles(files)) <= MaxLookups
    /\ \E order \in Orders(OutputFiles(files)) :
          LET G == _gather_agent_statuses(Gatherer, files, order)
              events == IF watcher = "notifier" THEN G.new ELSE <<>>
              G2 == IF watcher = "notifier" THEN [G EXCEPT !.new = <<>>] ELSE G
          IN /\ StoreGatherer(G2)
             /\ sent' = <<status_update(get_full_status(G))>>
                        \o [i \in 1..Len(events) |-> live_event(events[i])]
             /\ seen' = seen \cup {cache_key(files, G.missed[i]) : i \in DOMAIN G.missed}
             /\ last' = <<"gather", G.missed, "watcher">>
    /\ wpc' = "poll"
    /\ UNCHANGED <<files, returned, watcher, ticked, fresh>>

\* GET /api/status and a new websocket connection: get_full_status
HttpStatus ==
    /\ _hits + _misses + Cardinality(OutputFiles(files)) <= MaxLookups
    /\ \E order \in Orders(OutputFiles(files)) :
          LET G == _gather_agent_statuses(Gatherer, files, order)
          IN /\ StoreGatherer(G)
             /\ seen' = seen \cup {cache_key(files, G.missed[i]) : i \in DOMAIN G.missed}
             /\ last' = <<"gather", G.missed, "http">>
    /\ UNCHANGED <<files, returned, watcher, wpc, sent, ticked, fresh>>

\* a worker writing the output file p1
DashEnv ==
    /\ \/ WorkerAppend("p1", clock("p1"))
       \/ \E k \in 0..MaxEvents : WorkerTruncate("p1", k)
    /\ UNCHANGED <<tfiles, treads, returned, cacheVars, gatherVars>>

\* The dashboard server over one agent's output file, with either watcher loop.
InitDash ==
    /\ files = [p \in Paths |-> IF p = "p1" THEN new_file(<<>>) ELSE no_file]
    /\ tfiles = <<>>
    /\ treads = <<>>
    /\ returned = <<>>
    /\ cache = <<>>
    /\ access_order = <<>>
    /\ _hits = 0
    /\ _misses = 0
    /\ seen = {}
    /\ agent_parsed = <<>>
    /\ recent_events = <<>>
    /\ new_events = <<>>
    /\ watcher \in {"main", "notifier"}
    /\ wpc = "poll"
    /\ sent = <<>>
    /\ ticked = [p \in Paths |-> 0]
    /\ fresh = <<>>
    /\ last = <<"init">>
    /\ OrchestratorIdle
    /\ RestIdle

NextDash ==
    /\ DashEnv \/ WatchCheck \/ WatchBroadcast \/ HttpStatus
    /\ UNCHANGED <<swarmVars, singleVars, storeVars, report, restVars>>

SpecDash == InitDash /\ [][NextDash]_vars

\* Status requests over two agents' output files while their workers write.
InitGather ==
    /\ files = [p \in Paths |-> IF p = "p1" THEN new_file(<<>>)
                                ELSE IF p = "p2" THEN new_file(<<[id |-> 1, ts |-> 1]>>)
                                ELSE no_file]
    /\ tfiles = <<>>
    /\ treads = <<>>
    /\ returned = <<>>
    /\ cache = <<>>
    /\ access_order = <<>>
    /\ _hits = 0
    /\ _misses = 0
    /\ seen = {}
    /\ agent_parsed = <<>>
    /\ recent_events = <<>>
    /\ new_events = <<>>
    /\ watcher = "none"
    /\ wpc = "off"
    /\ sent = <<>>
    /\ ticked = [p \in Paths |-> 0]
    /\ fresh = <<>>
    /\ last = <<"init">>
    /\ OrchestratorIdle
    /\ RestIdle

GatherEnv ==
    /\ \E p \in {"p1", "p2"} : WorkerAppend(p, clock(p))
    /\ UNCHANGED <<tfiles, treads, returned, cacheVars, gatherVars>>

NextGather ==
    /\ GatherEnv \/ HttpStatus
    /\ UNCHANGED <<swarmVars, singleVars, storeVars, report, restVars>>

SpecGather == InitGather /\ [][NextGather]_vars

\* ------------------------------------------ check-triggers.py as a tool
\* Status snapshots on both sides of the two thresholds; their weighted
\* scores are 0, 0.50, 0.52, 0.60, 0.70, 0.74 and 1. The last one carries a
\* counter that is not a number ("interactions": "many").
TriggerProfiles ==
    { [interactions |-> 0,   confidence |-> 100, errors |-> 0,  stall |-> 0,
       numeric |-> TRUE],
      [interactions |-> 150, confidence |-> 70,  errors |-> 30, stall |-> 0,
       numeric |-> TRUE],
      [interactions |-> 150, confidence |-> 70,  errors |-> 30, stall |-> 1,
       numeric |-> TRUE],
      [interactions |-> 150, confidence |-> 35,  errors |-> 0,  stall |-> 10,
       numeric |-> TRUE],
      [interactions |-> 100, confidence |-> 0,   errors |-> 14, stall |-> 0,
       numeric |-> TRUE],
      [interactions |-> 200, confidence |-> 60,  errors |-> 35, stall |-> 10,
       numeric |-> TRUE],
      [interactions |-> 150, confidence |-> 0,   errors |-> 30, stall |-> 10,
       numeric |-> TRUE],
      [interactions |-> 0,   confidence |-> 100, errors |-> 0,  stall |-> 0,
       numeric |-> FALSE] }

\* generations/gen-1/status.json as a reader can find it. exists = FALSE is
\* the file that read_json cannot load: missing, or caught while write_json
\* rewrites it in place.
StatusFiles ==
    { [no_gen EXCEPT !.exists = TRUE, !.status = s, !.prof = p] :
        s \in {"running", "completed", "failed", "needs_succession"},
        p \in TriggerProfiles } \cup {no_gen}

\* check-triggers.py main: the exit status of the process
check_triggers_main(f) ==
    IF ~f.exists THEN 3
    ELSE IF f.status \in {"completed", "failed", "needs_succession"}
         THEN (IF f.status = "completed" THEN 0 ELSE 2)
    ELSE IF ~f.prof.numeric THEN 1
    ELSE trigger_exit(f.prof)

\* gas-orchestrator.check_triggers: should_handoff from the return code
should_handoff(returncode) == returncode \in {1, 2}

SwarmIdle ==
    /\ fstate = init_swarm(1)
    /\ mstate = init_swarm(1)
    /\ agen = <<no_generation>>
    /\ spc = "off"
    /\ wm_pc = "off"

SingleIdle ==
    /\ sstate = [current_generation |-> 0, total_generations |-> 0]
    /\ lpc = "off"
    /\ current_gen = 0
    /\ exit_code = -1
    /\ manual = 0
    /\ report = FALSE
    /\ knowledge = create_empty_store
    /\ ks_ops = 0
    /\ added = {}
    /\ lastadd = <<>>

\* the command line: python3 check-triggers.py <gas-dir> 1
RunTool ==
    /\ last' = <<"main", check_triggers_main(gens[1])>>
    /\ UNCHANGED <<gens, mon>>

\* monitor_generation up to the call of check_triggers
MonitorRead ==
    /\ mon = "idle"
    /\ IF ~gens[1].exists
       THEN /\ last' = <<"monitor_generation", "unknown", -1>>
            /\ mon' = mon
       ELSE IF gens[1].status \in {"completed", "failed", "needs_succession"}
       THEN /\ last' = <<"monitor_generation", gens[1].status, -1>>
            /\ mon' = mon
       ELSE /\ last' = <<"read_generation_status">>
            /\ mon' = gens[1].status
    /\ UNCHANGED gens

\* monitor_generation from the call of check_triggers: the tool reads the
\* file again, in its own process
MonitorCheck ==
    /\ mon # "idle"
    /\ LET returncode == check_triggers_main(gens[1])
       IN last' = <<"monitor_generation",
                    IF should_handoff(returncode) THEN "needs_succession" ELSE mon,
                    returncode>>
    /\ mon' = "idle"
    /\ UNCHANGED gens

\* the generation's agent rewrites its status.json
WorkerStatus(f) ==
    /\ gens' = <<f>>
    /\ last' = <<"worker">>
    /\ UNCHANGED mon

InitTrigger ==
    /\ gens \in {<<f>> : f \in StatusFiles}
    /\ last = <<"init">>
    /\ SwarmIdle
    /\ SingleIdle
    /\ DashIdle
    /\ RestIdle

NextTrigger ==
    /\ \/ RunTool
       \/ MonitorRead
       \/ MonitorCheck
       \/ \E f \in StatusFiles : WorkerStatus(f)
    /\ UNCHANGED <<swarmVars, sstate, lpc, current_gen, exit_code, knowledge,
                   manual, report, storeVars, dashVars, exceptTool>>

SpecTrigger == InitTrigger /\ [][NextTrigger]_vars

\* ------------------------------------ single mode: write_json that fails
\* handle_succession(N) makes four write_json calls on the workspace state:
\* 1 gen-(N+1)/status.json, 2 gen-(N+1)/transfer.json, 3 gas-state.json (all
\* three inside spawn_generation), 4 gen-N/status.json. When the k-th raises
\* OSError the earlier ones have been made.
handle_succession_dirs_upto(gs, n, k) ==
    CASE k = 1 -> gs
      [] k = 2 -> spawn_generation_dirs(gs, n + 1, 0)
      [] OTHER -> spawn_generation_dirs(gs, n + 1, create_transfer_document(n))

handle_succession_state_upto(st, n, k) ==
    IF k = 4 THEN spawn_generation_state(st, n + 1) ELSE st

\* A loop iteration whose handle_succession raises: the except clause logs
\* the error and sleeps, current_gen keeps its value, the loop goes on.
LoopSuccessionFails(k) ==
    /\ lpc = "loop"
    /\ current_gen < MaxGen
    /\ faults < MaxFaults
    /\ LET gen_status == monitor_generation(gens, current_gen)
       IN /\ \/ gen_status = "needs_succession"
             \/ gen_status = "completed" /\ ~task_complete(gens, current_gen)
          /\ knowledge' = IF gen_status = "completed"
                          THEN consolidate_learnings(knowledge, <<>>)
                          ELSE knowledge
    /\ gens' = handle_succession_dirs_upto(gens, current_gen, k)
    /\ sstate' = handle_succession_state_upto(sstate, current_gen, k)
    /\ faults' = faults + 1
    /\ last' = IF k <= 3 THEN "spawn_failed" ELSE "write_failed"
    /\ UNCHANGED <<lpc, current_gen, exit_code, manual, report>>
    /\ UNCHANGED <<swarmVars, storeVars, dashVars, exceptFault>>

\* The spawn of generation 1 before the loop raises (k = 1: status.json,
\* k = 3: gas-state.json): nothing catches it, the command ends with a
\* traceback and exit status 1.
LoopStartFails(k) ==
    /\ lpc = "start"
    /\ sstate.current_generation = 0
    /\ faults < MaxFaults
    /\ gens' = IF k = 3 THEN spawn_generation_dirs(gens, 1, 0) ELSE gens
    /\ lpc' = "stopped"
    /\ exit_code' = 1
    /\ faults' = faults + 1
    /\ last' = "spawn_failed"
    /\ UNCHANGED <<sstate, current_gen, knowledge, manual, report>>
    /\ UNCHANGED <<swarmVars, storeVars, dashVars, exceptFault>>

NextFaults ==
    \/ NextSingle
    \/ \E k \in 1..4 : LoopSuccessionFails(k)
    \/ \E k \in {1, 3} : LoopStartFails(k)

SpecFaults == InitSingle /\ [][NextFaults]_vars

\* ------------------------------------------------- SIGINT and the loops
\* run_orchestrator installs signal_handler, which only clears `running`;
\* the while condition reads it when the iteration in progress has ended.
SignalHandler ==
    /\ lpc = "loop"
    /\ ~interrupted
    /\ interrupted' = TRUE
    /\ last' = "signal_handler"
    /\ UNCHANGED <<singleVars, swarmVars, storeVars, dashVars, report, exceptSignal>>

LoopStop ==
    /\ lpc = "loop"
    /\ interrupted
    /\ lpc' = "stopped"
    /\ exit_code' = 0
    /\ last' = "loop_stopped"
    /\ UNCHANGED <<gens, sstate, current_gen, knowledge, manual, report>>
    /\ UNCHANGED <<swarmVars, storeVars, dashVars, restVars>>

\* run_swarm installs no handler and has no flag: SIGINT raises
\* KeyboardInterrupt in the statement the loop is executing, wherever that
\* is; the except clause of the loop body then ends the loop.
KeyboardInterrupt ==
    /\ spc \in {"tick", "advance", "spawn"}
    /\ ~interrupted
    /\ interrupted' = TRUE
    /\ spc' = "stopped"
    /\ last' = "swarm_interrupted"
    /\ UNCHANGED <<fstate, mstate, agen, wm_pc, report>>
    /\ UNCHANGED <<singleVars, storeVars, dashVars, exceptSignal>>

InitShutdown == InitSingle \/ InitSwarm

NextShutdown ==
    \/ LoopStart
    \/ /\ ~interrupted
       /\ \/ LoopCompletedDone
          \/ LoopCompletedNext
          \/ LoopSuccession
          \/ LoopFailed
          \/ LoopPoll
    \/ SignalHandler
    \/ LoopStop
    \/ /\ lpc # "off"
       /\ \E g \in 1..MaxGen, s \in {"running", "completed", "failed", "needs_succession"},
             tc \in BOOLEAN, p \in Profiles : WorkerGen(g, s, tc, p)
    \/ SwarmStart
    \/ SwarmRefresh
    \/ SwarmAdvance
    \/ SwarmSpawn
    \/ KeyboardInterrupt
    \/ \E a \in 1..MaxAgents, s \in {"running", "completed", "failed"}, p \in Profiles :
          WorkerAgent(a, s, p)

SpecShutdown == InitShutdown /\ [][NextShutdown]_vars

\* ------------------------------------------- dashboard: WebSocketManager
Clients == 1..MaxClients
MessageTypes == {"status_update", "agent_update", "live_event"}
default_subscriptions == {"status_update", "agent_update", "live_event"}

\* the events lists that clients send with subscribe and with unsubscribe
SubscribeLists == {{"status_update"}}
UnsubscribeLists == {{"live_event"}}

\* One pass over _connections under the lock, by broadcast or by
\* _ping_connections: todo are the connections not yet visited, cur the one
\* whose send is awaited. History, kept for broadcasts: log are the sends
\* that ended, in order, with their outcome; steady are the connections that
\* were registered, open and subscribed to the type when the pass began and
\* have been so ever since.
no_pass ==
    [pc |-> "idle", type |-> "none", todo |-> {}, cur |-> 0, to_remove |-> {},
     log |-> <<>>, steady |-> {}]

begin_pass(msg_type, conns, subs, sk) ==
    [pc |-> "iter", type |-> msg_type, todo |-> conns, cur |-> 0, to_remove |-> {},
     log |-> <<>>,
     steady |-> {c \in conns : sk[c] = "open" /\ msg_type # "ping" /\ msg_type \in subs[c]}]

\* broadcast: `if msg_type not in conn.subscriptions: continue`
subscribed_always(subs, c, msg_type) == TRUE
subscribed(subs, c, msg_type) == msg_type \in subs[c]

\* the next connection of the iteration: skipped, or its send begins
visit(t, c, subs) ==
    IF t.type = "ping" \/ subscribed(subs, c, t.type)
    THEN [t EXCEPT !.todo = @ \ {c}, !.cur = c, !.pc = "send"]
    ELSE [t EXCEPT !.todo = @ \ {c}]

\* the awaited send returns
logged(t, ok) == IF t.type = "ping" THEN t.log ELSE Append(t.log, <<t.cur, ok>>)

send_returns(t) ==
    [t EXCEPT !.log = logged(t, TRUE), !.cur = 0, !.pc = "iter"]

\* the awaited send raises ConnectionClosed (or another Exception): the
\* except clauses note the connection and the iteration goes on
send_raises_out(t) ==
    [t EXCEPT !.log = logged(t, FALSE), !.cur = 0, !.pc = "iter",
              !.todo = {}]
send_raises(t) ==
    [t EXCEPT !.log = logged(t, FALSE), !.cur = 0, !.pc = "iter",
              !.to_remove = @ \cup {t.cur}]

\* history: connection c stops being steady for the passes in progress
unsteady(t, c) == [t EXCEPT !.steady = @ \ {c}]

\* _handle_connection up to the message loop
Connect(c) ==
    /\ sock[c] = "new"
    /\ lock = "free"
    /\ connections' = connections \cup {c}
    /\ subscriptions' = [subscriptions EXCEPT ![c] = default_subscriptions]
    /\ sock' = [sock EXCEPT ![c] = "open"]
    /\ last' = <<"connect", c>>
    /\ UNCHANGED <<lock, bcast, ping>>

\* _handle_message, type subscribe
Subscribe(c, events) ==
    /\ sock[c] = "open"
    /\ subscriptions' = [subscriptions EXCEPT ![c] = events]
    /\ bcast' = IF bcast.type \in events THEN bcast ELSE unsteady(bcast, c)
    /\ last' = <<"subscribe", c>>
    /\ UNCHANGED <<connections, sock, lock, ping>>

\* _handle_message, type unsubscribe
Unsubscribe(c, events) ==
    /\ sock[c] = "open"
    /\ subscriptions' = [subscriptions EXCEPT ![c] = @ \ events]
    /\ bcast' = IF bcast.type \in events THEN unsteady(bcast, c) ELSE bcast
    /\ last' = <<"unsubscribe", c>>
    /\ UNCHANGED <<connections, sock, lock, ping>>

\* the client goes away
ClientClose(c) ==
    /\ sock[c] = "open"
    /\ sock' = [sock EXCEPT ![c] = "closed"]
    /\ bcast' = unsteady(bcast, c)
    /\ ping' = ping
    /\ last' = <<"close", c>>
    /\ UNCHANGED <<connections, subscriptions, lock>>

\* _handle_connection, the finally clause
HandlerFinally(c) ==
    /\ sock[c] = "closed"
    /\ lock = "free"
    /\ connections' = connections \ {c}
    /\ sock' = [sock EXCEPT ![c] = "gone"]
    /\ last' = <<"discard", c>>
    /\ UNCHANGED <<subscriptions, lock, bcast, ping>>

\* broadcast(msg_type, data) up to the for loop
BroadcastBegin(msg_type) ==
    /\ bcast.pc = "idle"
    /\ connections # {}
    /\ lock = "free"
    /\ lock' = "broadcast"
    /\ bcast' = begin_pass(msg_type, connections, subscriptions, sock)
    /\ last' = <<"broadcast_begin", msg_type>>
    /\ UNCHANGED <<connections, subscriptions, sock, ping>>

BroadcastVisit(c) ==
    /\ bcast.pc = "iter"
    /\ c \in bcast.todo
    /\ bcast' = visit(bcast, c, subscriptions)
    /\ last' = <<"broadcast_visit", c>>
    /\ UNCHANGED <<connections, subscriptions, sock, lock, ping>>

BroadcastSent ==
    /\ bcast.pc = "send"
    /\ sock[bcast.cur] = "open"
    /\ bcast' = send_returns(bcast)
    /\ last' = <<"broadcast_sent", bcast.cur>>
    /\ UNCHANGED <<connections, subscriptions, sock, lock, ping>>

BroadcastSendFails ==
    /\ bcast.pc = "send"
    /\ sock[bcast.cur] # "open"
    /\ bcast' = send_raises(bcast)
    /\ last' = <<"broadcast_send_failed", bcast.cur>>
    /\ UNCHANGED <<connections, subscriptions, sock, lock, ping>>

\* broadcast after the for loop: the dead connections are discarded and the
\* lock is released
BroadcastEnd ==
    /\ bcast.pc = "iter"
    /\ bcast.todo = {}
    /\ connections' = connections \ bcast.to_remove
    /\ lock' = "free"
    /\ bcast' = no_pass
    /\ last' = <<"broadcast", bcast.type, bcast.log, bcast.steady>>
    /\ UNCHANGED <<subscriptions, sock, ping>>

\* _ping_connections, one round after the sleep
PingBegin ==
    /\ ping.pc = "idle"
    /\ lock = "free"
    /\ lock' = "ping"
    /\ ping' = begin_pass("ping", connections, subscriptions, sock)
    /\ last' = <<"ping_begin">>
    /\ UNCHANGED <<connections, subscriptions, sock, bcast>>

PingVisit(c) ==
    /\ ping.pc = "iter"
    /\ c \in ping.todo
    /\ ping' = visit(ping, c, subscriptions)
    /\ last' = <<"ping_visit", c>>
    /\ UNCHANGED <<connections, subscriptions, sock, lock, bcast>>

PingSent ==
    /\ ping.pc = "send"
    /\ sock[ping.cur] = "open"
    /\ ping' = send_returns(ping)
    /\ last' = <<"ping_sent", ping.cur>>
    /\ UNCHANGED <<connections, subscriptions, sock, lock, bcast>>

PingSendFails ==
    /\ ping.pc = "send"
    /\ sock[ping.cur] # "open"
    /\ ping' = send_raises(ping)
    /\ last' = <<"ping_send_failed", ping.cur>>
    /\ UNCHANGED <<connections, subscriptions, sock, lock, bcast>>

PingEnd ==
    /\ ping.pc = "iter"
    /\ ping.todo = {}
    /\ connections' = connections \ ping.to_remove
    /\ lock' = "free"
    /\ ping' = no_pass
    /\ last' = <<"ping", ping.to_remove>>
    /\ UNCHANGED <<subscriptions, sock, bcast>>

InitSocket ==
    /\ connections = {}
    /\ subscriptions = [c \in Clients |-> {}]
    /\ sock = [c \in Clients |-> "new"]
    /\ lock = "free"
    /\ bcast = no_pass
    /\ ping = no_pass
    /\ last = <<"init">>
    /\ OrchestratorIdle
    /\ DashIdle
    /\ ToolIdle
    /\ FaultIdle
    /\ SignalIdle
    /\ ExportIdle
    /\ ParseIdle
    /\ LruIdle
    /\ WaveIdle
    /\ ReadIdle

NextSocket ==
    /\ \/ \E c \in Clients : Connect(c)
       \/ \E c \in Clients, events \in SubscribeLists : Subscribe(c, events)
       \/ \E c \in Clients, events \in UnsubscribeLists : Unsubscribe(c, events)
       \/ \E c \in Clients : ClientClose(c)
       \/ \E c \in Clients : HandlerFinally(c)
       \/ \E msg_type \in MessageTypes : BroadcastBegin(msg_type)
       \/ \E c \in Clients : BroadcastVisit(c)
       \/ BroadcastSent
       \/ BroadcastSendFails
       \/ BroadcastEnd
       \/ PingBegin
       \/ \E c \in Clients : PingVisit(c)
       \/ PingSent
       \/ PingSendFails
       \/ PingEnd
    /\ UNCHANGED <<swarmVars, singleVars, storeVars, dashVars, report, exceptWs>>

SpecSocket == InitSocket /\ [][NextSocket]_vars

\* ------------------------------------ knowledge-store.py: query, export
\* query_patterns looks a type up under pattern_type + "s" unless it ends in
\* "s" (the same rule as find_similar_pattern); "none" stands for no --type,
\* no --context, and 0 for no --min-confidence.
types_to_search(pattern_type) ==
    IF pattern_type = "none" THEN <<"success_patterns", "anti_patterns", "domain_knowledge">>
    ELSE <<similar_key(pattern_type)>>

\* ptype.rstrip("s")
rstrip_s(ptype) ==
    IF ptype = "success_patterns" THEN "success_pattern"
    ELSE IF ptype = "anti_patterns" THEN "anti_pattern"
    ELSE IF ptype = "domain_knowledges" THEN "domain_knowledge"
    ELSE ptype

\* context.lower() in p.get("context", "").lower(): on Contexts, whose members
\* are lower case and not substrings of one another, and on the empty context
\* of a raw entry, this is equality
context_matches(context, p) == context = "none" \/ context = p.context

RECURSIVE matching(_, _, _, _)
matching(patterns, ptype, context, min_confidence) ==
    IF patterns = <<>> THEN <<>>
    ELSE LET p == Head(patterns)
             rest == matching(Tail(patterns), ptype, context, min_confidence)
         IN IF ~context_matches(context, p) THEN rest
            ELSE IF min_confidence # 0 /\ confidence_or_0(p) < min_confidence THEN rest
            ELSE <<[context |-> p.context, pattern |-> p.pattern,
                    confidence |-> p.confidence, occurrences |-> p.occurrences,
                    raw |-> p.raw, type |-> rstrip_s(ptype)]>> \o rest

RECURSIVE matching_all(_, _, _, _)
matching_all(store, ptypes, context, min_confidence) ==
    IF ptypes = <<>> THEN <<>>
    ELSE matching(store_get(store, Head(ptypes)), Head(ptypes), context, min_confidence)
            \o matching_all(store, Tail(ptypes), context, min_confidence)

query_patterns(store, pattern_type, context, min_confidence, limit) ==
    LET results == sorted_by_confidence(
                       matching_all(store, types_to_search(pattern_type), context,
                                    min_confidence))
    IN SubSeq(results, 1, IF Len(results) < limit THEN Len(results) ELSE limit)

\* patterns[:n]
first_n(patterns, n) == SubSeq(patterns, 1, IF Len(patterns) < n THEN Len(patterns) ELSE n)

\* export_to_json: the value the JSON text denotes. The entries are dicts of
\* strings and numbers, which json.dumps and json.loads give back as they were.
export_to_json(store) ==
    [success_patterns |-> first_n(store_get(store, "success_patterns"), limit_per_type),
     anti_patterns |-> first_n(store_get(store, "anti_patterns"), limit_per_type),
     domain_knowledge |-> first_n(store_get(store, "domain_knowledge"), limit_per_type)]

\* the query arguments tried
QueryTypes == {"none", "success_pattern", "domain_knowledge"}
QueryContexts == {"none", "api"}
QueryConfidences == {0, default_confidence}
QueryLimits == {1, 10}

\* knowledge-store.py export --format json
KSExport ==
    /\ exported = <<>>
    /\ exported' = <<export_to_json(knowledge)>>
    /\ last' = "ks_export"
    /\ UNCHANGED <<knowledge, qres, storeVars>>

\* knowledge-store.py query, on the store and on the export taken of it
KSQuery(pattern_type, context, min_confidence, limit) ==
    /\ exported # <<>>
    /\ qres' = <<<<pattern_type, context, min_confidence, limit>>,
                 query_patterns(knowledge, pattern_type, context, min_confidence, limit),
                 query_patterns(exported[1], pattern_type, context, min_confidence, limit)>>
    /\ last' = "ks_query"
    /\ UNCHANGED <<knowledge, exported, storeVars>>

\* adds build the store; once it has been exported it is left alone
NextExport ==
    \/ /\ exported = <<>>
       /\ ks_ops < MaxExportAdds
       /\ \E t \in Kinds, c \in Contexts, p \in Patterns, f \in Confidences :
             KSAdd(t, c, p, f)
    \/ /\ \/ KSExport
          \/ \E t \in QueryTypes, c \in QueryContexts, f \in QueryConfidences,
                l \in QueryLimits : KSQuery(t, c, f, l)
       /\ UNCHANGED <<gens, sstate, lpc, current_gen, exit_code, manual, report>>
       /\ UNCHANGED <<swarmVars, dashVars, exceptExport>>

SpecExport == InitKnowledge /\ [][NextExport]_vars


\* ------------------------------------- output_parser.py on raw buffer lines
\* A line of an output file before it is decoded.  kind says what json.loads
\* makes of the stripped line:
\*   "event"      a JSON object with a type and a timestamp (id, ts as above)
\*   "empty"      nothing but white space
\*   "malformed"  not JSON
\*   "falsy"      JSON whose value is false in a condition: null, 0, "", [], {}, false
\*   "truthy"     JSON that is no object and is true in a condition: 5, "text", [1], true
event_line(id, ts) == [kind |-> "event", id |-> id, ts |-> ts]
other_line(kind) == [kind |-> kind, id |-> 0, ts |-> 0]

RawLines ==
    {event_line(1, 1), event_line(2, 2)}
        \cup {other_line(k) : k \in {"empty", "malformed", "falsy", "truthy"}}

RECURSIVE SeqsUpTo(_, _)
SeqsUpTo(S, n) ==
    IF n = 0 THEN {<<>>}
    ELSE LET shorter == SeqsUpTo(S, n - 1)
         IN shorter \cup {Append(s, x) : s \in {q \in shorter : Len(q) = n - 1}, x \in S}

None == [kind |-> "None", id |-> 0, ts |-> 0]

\* parse_ndjson_line(line): None for an empty line and for a JSONDecodeError,
\* otherwise whatever json.loads returns
parse_ndjson_line(line) ==
    IF line.kind = "empty" THEN None
    ELSE IF line.kind = "malformed" THEN None
    ELSE line

\* "if not event": None and the values Python takes for false
not_event(event) == event.kind \in {"None", "falsy"}

\* event.get('timestamp'): only a dict has the method
has_get(event) == event.kind = "event"

\* the loop "for line in lines" of parse_output_content, on the object st it
\* accumulates into; an AttributeError leaves the loop with what was done so far
RECURSIVE parse_lines(_, _)
parse_lines(lines, st) ==
    IF lines = <<>> THEN [result |-> st, raises |-> FALSE]
    ELSE LET event == parse_ndjson_line(Head(lines))
         IN IF not_event(event) THEN parse_lines(Tail(lines), st)
            ELSE IF ~has_get(event)
                 THEN [result |-> [st EXCEPT !.out.total_events = @ + 1], raises |-> TRUE]
            ELSE parse_lines(Tail(lines), [st EXCEPT !.out = parse_line(@, event)])

\* parse_output_content(content, existing_parsed) on raw lines: raw_lines_count
\* is raised by len(lines) before the loop
parse_raw_content(content, existing_parsed) ==
    parse_lines(content, [existing_parsed EXCEPT !.raw_lines_count = @ + Len(content)])

\* one call with the object of the calls before it, as the gatherer makes them
\* for an agent's output file
ParseContent(content) ==
    /\ calls < MaxCalls
    /\ LET r == parse_raw_content(content, parsing)
       IN /\ parsing' = r.result
          /\ raised' = r.raises
    /\ chunk' = content
    /\ calls' = calls + 1
    /\ last' = "parse_output_content"

InitParser ==
    /\ gens = <<>>
    /\ last = "init"
    /\ SwarmIdle
    /\ SingleIdle
    /\ DashIdle
    /\ RestIdle

NextParser ==
    /\ \E content \in SeqsUpTo(RawLines, MaxChunkLines) : ParseContent(content)
    /\ UNCHANGED <<swarmVars, gens, sstate, lpc, current_gen, exit_code, knowledge,
                   manual, report, storeVars, dashVars, exceptParse>>

SpecParser == InitParser /\ [][NextParser]_vars


\* ------------------------------------ single mode: a worker that went silent
\* Statuses a worker last wrote before it stopped updating status.json.
StallProfiles ==
    { [interactions |-> i, confidence |-> c, errors |-> 0, stall |-> 0, numeric |-> TRUE] :
          i \in {0, 75, 149, 150}, c \in {100, 70, 35} }

\* A minute passes and the current generation's status.json is not rewritten:
\* "now - last_updated" of evaluate_triggers grows by one.
ClockTick ==
    /\ lpc = "loop"
    /\ gens[current_gen].status \in {"pending", "running"}
    /\ gens[current_gen].prof.stall < MaxStall
    /\ gens' = [gens EXCEPT ![current_gen].prof.stall = @ + 1]
    /\ last' = "clock"
    /\ UNCHANGED <<sstate, lpc, current_gen, exit_code, knowledge, manual, report>>
    /\ UNCHANGED <<swarmVars, storeVars, dashVars, restVars>>

\* the loop is monitoring generation 1, whose worker wrote a status and froze
InitStall ==
    /\ gens \in {[g \in 1..MaxGen |->
                     IF g = 1 THEN [no_gen EXCEPT !.exists = TRUE, !.status = "running",
                                                  !.prof = p]
                     ELSE no_gen] : p \in StallProfiles}
    /\ sstate = [current_generation |-> 1, total_generations |-> 1]
    /\ lpc = "loop"
    /\ current_gen = 1
    /\ exit_code = -1
    /\ knowledge = create_empty_store
    /\ ks_ops = 0
    /\ added = {}
    /\ lastadd = <<>>
    /\ manual = 0
    /\ report = FALSE
    /\ last = "init"
    /\ SwarmIdle
    /\ DashIdle
    /\ RestIdle

NextStall ==
    \/ ClockTick
    \/ LoopPoll
    \/ LoopSuccession

\* the loop keeps iterating and time keeps passing
SpecStall ==
    InitStall /\ [][NextStall]_vars /\ WF_vars(ClockTick) /\ WF_vars(LoopSuccession)


\* ------------------------------------- knowledge-store.py: confidence decay
\* DEFAULT_CONFIG["decay_rate"], the floor of max(0.1, ...) and the age of
\* "current_generation - source_gen > 2", confidences in hundredths
decay_rate == 10
decay_floor == 10
decay_age == 2

\* Entries as add_pattern writes them, with their source_generation (0: None,
\* the add was made without --generation).
DecayEntries ==
    [context : {"api"}, pattern : {<<"a">>}, confidence : {15, 75}, occurrences : {1, 2},
     raw : {FALSE}, source_generation : {0, 1, 2}]

DecayStores ==
    [generations_completed : {0},
     success_patterns : SeqsUpTo(DecayEntries, 2),
     anti_patterns : SeqsUpTo(DecayEntries, 1),
     domain_knowledge : SeqsUpTo({e \in DecayEntries : e.confidence = 15 /\ e.occurrences = 1
                                                       /\ e.source_generation = 1}, 1)]

\* the body of the loop "for p in store.get(pattern_type, [])"
decay_entry(p, current_generation) ==
    IF p.source_generation # 0 /\ current_generation - p.source_generation > decay_age
          /\ p.occurrences <= 1
    THEN [p EXCEPT !.confidence = IF @ - decay_rate < decay_floor THEN decay_floor
                                  ELSE @ - decay_rate]
    ELSE p

\* decay_unused_patterns(store, current_generation): the store after the call
decay_unused_patterns(store, current_generation) ==
    [store EXCEPT
        !.success_patterns = [i \in 1..Len(@) |-> decay_entry(@[i], current_generation)],
        !.anti_patterns = [i \in 1..Len(@) |-> decay_entry(@[i], current_generation)]]

Decay(current_generation) ==
    /\ ks_ops < MaxDecays
    /\ knowledge' = decay_unused_patterns(knowledge, current_generation)
    /\ ks_ops' = ks_ops + 1
    /\ last' = <<"decay", current_generation>>
    /\ UNCHANGED <<added, lastadd>>
    /\ UNCHANGED <<gens, sstate, lpc, current_gen, exit_code, manual, report>>
    /\ UNCHANGED <<swarmVars, dashVars, restVars>>

InitDecay ==
    /\ knowledge \in DecayStores
    /\ ks_ops = 0
    /\ added = {}
    /\ lastadd = <<>>
    /\ last = <<"init">>
    /\ gens = <<>>
    /\ sstate = [current_generation |-> 0, total_generations |-> 0]
    /\ lpc = "off"
    /\ current_gen = 0
    /\ exit_code = -1
    /\ manual = 0
    /\ report = FALSE
    /\ SwarmIdle
    /\ DashIdle
    /\ RestIdle

NextDecay == \E current_generation \in 3..4 : Decay(current_generation)

SpecDecay == InitDecay /\ [][NextDecay]_vars


\* ------------------------------- file_tracker.py: BoundedParseCache on its own
\* invalidate(key)
cache_invalidate(C, key) ==
    IF key \in DOMAIN C.cache
    THEN [C EXCEPT !.cache = drop(@, key), !.order = without(@, key)]
    ELSE C

\* keys f"{filepath}:{mtime}" and cached values
CacheKeys == {<<p, 1>> : p \in Paths}
CacheValues == {ParsedOutput, [ParsedOutput EXCEPT !.total_events = 1]}

\* the keys of a cache in the order of their last touch, after key was touched
touch_key(order, key, C) ==
    SelectSeq(Append(without(order, key), key), LAMBDA k : k \in DOMAIN C.cache)

store_cache(C) ==
    /\ cache' = C.cache
    /\ access_order' = C.order
    /\ _hits' = C.hits
    /\ _misses' = C.misses
    /\ UNCHANGED _max_size

CacheGet(key) ==
    /\ _hits + _misses < MaxLookups
    /\ store_cache(cache_get(Cache, key))
    /\ touched' = IF key \in DOMAIN cache THEN touch_key(touched, key, Cache) ELSE touched
    /\ last' = <<"get", key, key \in DOMAIN cache>>

CacheSet(key, value) ==
    /\ LET C == cache_set(Cache, key, value)
       IN /\ store_cache(C)
          /\ touched' = touch_key(touched, key, C)
          /\ last' = <<"set", key, DOMAIN cache \ DOMAIN C.cache>>

CacheInvalidate(key) ==
    /\ LET C == cache_invalidate(Cache, key)
       IN /\ store_cache(C)
          /\ touched' = SelectSeq(touched, LAMBDA k : k # key)
    /\ last' = <<"invalidate", key>>

\* BoundedParseCache(max_size)
InitCache ==
    /\ _max_size \in 1..MaxCapacity
    /\ touched = <<>>
    /\ last = <<"init">>
    /\ OrchestratorIdle
    /\ DashIdle
    /\ ToolIdle
    /\ FaultIdle
    /\ SignalIdle
    /\ SocketIdle
    /\ ExportIdle
    /\ ParseIdle
    /\ WaveIdle
    /\ ReadIdle

NextCache ==
    /\ \/ \E key \in CacheKeys : CacheGet(key)
       \/ \E key \in CacheKeys, value \in CacheValues : CacheSet(key, value)
       \/ \E key \in CacheKeys : CacheInvalidate(key)
    /\ UNCHANGED <<swarmVars, singleVars, storeVars, trackVars, seen, gatherVars, report,
                   exceptLru>>

SpecCache == InitCache /\ [][NextCache]_vars


\* ------------------------------ swarm: two wave-manager.py advance commands
\* The second command, started while the first one runs: the same two reads of
\* the state file.
WMCheck2 ==
    /\ wm_pc2 = "idle"
    /\ IF wm_can_advance(fstate)
       THEN wm_pc2' = "ready" /\ last' = "wm_check_true"
       ELSE wm_pc2' = "idle" /\ last' = "wm_advance_false"
    /\ UNCHANGED <<fstate, mstate, agen, spc, wm_pc, report>>

WMApply2 ==
    /\ wm_pc2 = "ready"
    /\ fstate' = wm_advanced(fstate)
    /\ wm_pc2' = "idle"
    /\ last' = "wm_advance_true"
    /\ UNCHANGED <<mstate, agen, spc, wm_pc, report>>

\* a workspace made by init, no orchestrator loop running
InitWaves ==
    /\ \E n \in 1..MaxAgents :
          /\ fstate = init_swarm(n)
          /\ mstate = init_swarm(n)
          /\ agen = [a \in 1..n |-> no_generation]
    /\ spc = "off"
    /\ wm_pc = "idle"
    /\ gens = <<>>
    /\ SingleIdle
    /\ DashIdle
    /\ RestIdle
    /\ last = "init"

NextWaves ==
    \/ /\ \/ WMCheck
          \/ WMApply
          \/ \E w \in 1..MaxAgents : WMSpawn(w)
          \/ \E a \in 1..MaxAgents, s \in {"running", "completed", "failed"}, p \in Profiles :
                WorkerAgent(a, s, p)
       /\ UNCHANGED wm_pc2
    \/ /\ \/ WMCheck2
          \/ WMApply2
       /\ UNCHANGED <<singleVars, storeVars, dashVars, exceptWave>>

SpecWaves == InitWaves /\ [][NextWaves]_vars


\* --------------- file_tracker.py: get_all_content beside get_new_content
\* get_all_content reads the file first and takes self._lock afterwards; another
\* thread's get_new_content, which holds the lock from its stat to its tell, fits
\* between the two.
GetAllRead(p) ==
    /\ ga_pc = "idle"
    /\ files[p].exists
    /\ ga_pc' = "read"
    /\ ga_content' = files[p].content
    /\ last' = <<"get_all_content", p, "read">>
    /\ UNCHANGED <<files, tfiles, treads, returned>>

\* "with self._lock": the entry is created if it is missing and its position is
\* set to the length of the content read
get_all_content_locked(T, content, p) ==
    LET T1 == get_or_create(T, p)
    IN [files |-> [T1.files EXCEPT ![p].position = Len(content)],
        order |-> touch(T1.order, p)]

GetAllStore(p) ==
    /\ ga_pc = "read"
    /\ LET T1 == get_all_content_locked(Tracker, ga_content, p)
       IN /\ tfiles' = T1.files
          /\ treads' = T1.order
    /\ ga_pc' = "idle"
    /\ ga_content' = <<>>
    /\ last' = <<"get_all_content", p, "stored">>
    /\ UNCHANGED <<files, returned>>

\* two threads on the output file the worker writes
NextRace ==
    /\ \/ TrackerEnv /\ UNCHANGED readVars
       \/ GetNewContent("p1") /\ UNCHANGED readVars
       \/ GetAllRead("p1")
       \/ GetAllStore("p1")
    /\ UNCHANGED <<swarmVars, singleVars, storeVars, report, cacheVars, gatherVars,
                   exceptRead>>

SpecRace == InitTracker /\ [][NextRace]_vars


\* ------------------------- incremental reading of a file written in pieces
\* A line the worker writes reaches the file whole, or as a head and later a tail
\* (the newline is in the tail).  In this specification a file is a sequence of
\* such pieces and offsets count pieces.
head_piece(id, ts) == [kind |-> "head", id |-> id, ts |-> ts]
tail_piece(id, ts) == [kind |-> "tail", id |-> id, ts |-> ts]

\* the file ends inside a line
mid_line(content) == content # <<>> /\ content[Len(content)].kind = "head"

WorkerWrite(p, kind, ts) ==
    /\ files[p].exists
    /\ IF mid_line(files[p].content) THEN kind = "tail"
       ELSE kind \in {"event", "head"} /\ files[p].written < MaxEvents
    /\ LET id == IF kind = "tail" THEN files[p].written ELSE files[p].written + 1
       IN files' = [files EXCEPT ![p].content = Append(@, [kind |-> kind, id |-> id, ts |-> ts]),
                                 ![p].written = id,
                                 ![p].mtime = @ + 1]
    /\ last' = <<"write", p, kind>>
    /\ UNCHANGED <<tfiles, treads, returned>>

\* content.split('\n') on a buffer of pieces: a head with its tail is the line, a
\* head or a tail alone is text that is not JSON, and the text after the last
\* newline is the last element (empty when the buffer ends with a newline)
RECURSIVE split_lines(_)
split_lines(b) ==
    IF b = <<>> THEN <<other_line("empty")>>
    ELSE IF b[1].kind = "event" THEN <<b[1]>> \o split_lines(Tail(b))
    ELSE IF b[1].kind = "head" /\ Len(b) >= 2
         THEN <<event_line(b[1].id, b[1].ts)>> \o split_lines(Tail(Tail(b)))
    ELSE IF b[1].kind = "head" THEN <<other_line("malformed")>>
    ELSE <<other_line("malformed")>> \o split_lines(Tail(b))

\* check_for_changes, the turn of its loop for output file p: get_new_content and,
\* on a change, parse_output_content(content, existing)
CheckOutputFile(p) ==
    LET r == get_new_content(Tracker, files, p)
        parsed == parse_raw_content(split_lines(r.content), parsing)
    IN /\ tfiles' = r.T.files
       /\ treads' = r.T.order
       /\ files' = IF r.read THEN [files EXCEPT ![p].trunc_pending = FALSE] ELSE files
       /\ IF r.changed
          THEN /\ chunk' = split_lines(r.content)
               /\ parsing' = parsed.result
               /\ raised' = parsed.raises
          ELSE UNCHANGED <<chunk, parsing, raised>>
       /\ last' = <<"check_for_changes", p, r.changed>>
       /\ UNCHANGED <<returned, calls>>

NextPartial ==
    /\ \/ \E kind \in {"event", "head", "tail"} :
             WorkerWrite("p1", kind, 1) /\ UNCHANGED parseVars
       \/ CheckOutputFile("p1")
    /\ UNCHANGED <<swarmVars, singleVars, storeVars, report, cacheVars, gatherVars,
                   exceptParse>>

SpecPartial == InitTracker /\ [][NextPartial]_vars


\* ------------------------------ single mode: the run loop over a long run
\* DEFAULT_CONFIG["max_generations_per_agent"]
max_generations_per_agent == 10

\* "gas-orchestrator.py run" on a fresh workspace whose workers finish a
\* generation again and again; room for MaxSpawned generation directories
InitGenerations ==
    /\ gens = [g \in 1..MaxSpawned |-> no_gen]
    /\ sstate = [current_generation |-> 0, total_generations |-> 0]
    /\ lpc = "start"
    /\ current_gen = 0
    /\ exit_code = -1
    /\ knowledge = create_empty_store
    /\ ks_ops = 0
    /\ added = {}
    /\ lastadd = <<>>
    /\ manual = 0
    /\ report = FALSE
    /\ last = "init"
    /\ SwarmIdle
    /\ DashIdle
    /\ RestIdle

\* what the workers report: a fresh profile, or one that trips the triggers
LongRunProfiles == {p \in Profiles : p = FreshProfile \/ p.interactions = 200}

NextGenerations ==
    \/ LoopStart
    \/ LoopCompletedDone
    \/ LoopCompletedNextUpTo(MaxSpawned)
    \/ LoopSuccessionUpTo(MaxSpawned)
    \/ LoopFailed
    \/ LoopPoll
    \/ \E g \in 1..MaxSpawned, s \in {"running", "completed", "failed", "needs_succession"},
          tc \in BOOLEAN, p \in LongRunProfiles : WorkerGen(g, s, tc, p)

SpecGenerations == InitGenerations /\ [][NextGenerations]_vars

\* ================================================================ claims

\* some agent of the wave w of state st is neither completed nor succeeded
SomeIncomplete(st, w) ==
    /\ w \in DOMAIN st.waves
    /\ \E a \in st.waves[w].agents : st.agents[a].status \notin {"completed", "succeeded"}

\* C1: a wave W >= 2 is set to running only by a step taken while wave W-1 is
\* completed (at the latest, marked completed by that same step).
C1_RunningOnlyAfterPreviousCompleted ==
    [][\A w \in DOMAIN fstate.waves :
          (w >= 2 /\ fstate.waves[w].status # "running" /\ fstate'.waves[w].status = "running")
             => /\ (w - 1) \in DOMAIN fstate.waves
                /\ \/ fstate.waves[w - 1].status = "completed"
                   \/ fstate'.waves[w - 1].status = "completed"]_vars

\* C2: generation 1 of an agent of wave W+1 is never spawned in a state where an
\* agent of wave W is neither completed nor succeeded.
C2_NoSpawnBeforeBarrier ==
    [][\A a \in DOMAIN agen :
          (agen[a].n = 0 /\ agen'[a].n = 1 /\ fstate.agents[a].wave >= 2)
             => ~SomeIncomplete(fstate, fstate.agents[a].wave - 1)]_vars

\* C3: advance() called while an agent of the current wave is neither completed
\* nor succeeded returns false and changes neither the in-memory state, the state
\* file, nor any agent record (run_swarm's manager and the wave-manager command).
C3_AdvanceRefusedLeavesStateUnchanged ==
    [][/\ (spc = "advance" /\ spc' = "spawn" /\ SomeIncomplete(mstate, mstate.current_wave))
             => /\ last' = "swarm_advance_false"
                /\ UNCHANGED <<fstate, mstate, agen>>
       /\ (wm_pc = "idle" /\ last' \in {"wm_check_true", "wm_advance_false"}
              /\ SomeIncomplete(fstate, fstate.current_wave))
             => /\ last' = "wm_advance_false"
                /\ wm_pc' = "idle"
                /\ UNCHANGED <<fstate, mstate, agen>>]_vars

C3_Witness ==
    /\ spc = "spawn"
    /\ last = "swarm_advance_false"
    /\ mstate.current_wave < mstate.total_waves
    /\ SomeIncomplete(mstate, mstate.current_wave)

\* C4: advance() with current_wave < total_waves and the current wave complete marks
\* the current wave completed (with completed_at), increments current_wave by 1 and
\* marks the new wave running (with started_at); the zero-generation agents of the
\* new wave then get generation 1.
C4_AdvanceMarksAndSpawns ==
    [][/\ (spc = "advance" /\ spc' = "spawn" /\ mstate.current_wave < mstate.total_waves
              /\ ~SomeIncomplete(mstate, mstate.current_wave))
             => /\ fstate'.current_wave = mstate.current_wave + 1
                /\ fstate'.waves[mstate.current_wave].status = "completed"
                /\ fstate'.waves[mstate.current_wave].completed_at
                /\ fstate'.waves[mstate.current_wave + 1].status = "running"
                /\ fstate'.waves[mstate.current_wave + 1].started_at
       /\ (spc = "spawn" /\ spc' = "tick" /\ last = "swarm_advance_true")
             => \A a \in get_wave_agents(mstate, mstate.current_wave) :
                   mstate.agents[a].current_generation = 0 => agen'[a].n >= 1]_vars

\* C5: a generation N that is succeeded has succeeded_to = N+1, a transfer.json in
\* its own directory whose child generation is N+1, and a successor N+1.
C5_SucceededHasTransferAndSuccessor ==
    \A n \in DOMAIN gens :
       (gens[n].exists /\ gens[n].status = "succeeded")
          => /\ gens[n].succeeded_to = n + 1
             /\ gens[n].transfer = n + 1
             /\ (n + 1) \in DOMAIN gens
             /\ gens[n + 1].exists

\* C6: every generation N > 1 that is created is created with a transfer document
\* whose child generation is N.
C6_SuccessorCreatedWithTransfer ==
    [][\A n \in DOMAIN gens :
          (n > 1 /\ ~gens[n].exists /\ gens'[n].exists) => gens'[n].transfer = n]_vars

\* C7: when the monitored generation N is completed, the loop stops without
\* spawning N+1 if N set task_complete, and otherwise spawns N+1 and goes on
\* monitoring N+1; a stopped loop takes no further step.
LoopOps == {"loop_start", "loop_task_complete", "loop_completed_succession",
            "loop_succession", "loop_failed", "loop_poll"}

C7_CompletedStopsOrSucceeds ==
    [][/\ (lpc = "loop" /\ last' \in LoopOps /\ gens[current_gen].exists
              /\ gens[current_gen].status = "completed")
             => IF gens[current_gen].task_complete
                THEN /\ lpc' = "stopped"
                     /\ UNCHANGED <<gens, sstate, current_gen>>
                ELSE /\ lpc' = "loop"
                     /\ current_gen' = current_gen + 1
                     /\ gens'[current_gen + 1].exists
                     /\ gens'[current_gen + 1].status = "pending"
       /\ lpc = "stopped" => (lpc' = "stopped" /\ current_gen' = current_gen
                                 /\ (last' \in LoopOps => last' = last))]_vars

C7_Witness ==
    /\ lpc = "stopped"
    /\ last = "loop_task_complete"
    /\ current_gen >= 2
    /\ gens[current_gen - 1].status = "succeeded"
    /\ gens[current_gen].task_complete
    /\ \A n \in DOMAIN gens : n > current_gen => ~gens[n].exists

\* C8: when the monitored generation is failed the run stops, spawns no successor
\* and the run command does not exit 0.
C8_FailedExitsNonZero ==
    last = "loop_failed" => (lpc = "stopped" /\ exit_code # -1 /\ exit_code # 0)

\* C9: in swarm mode a running generation whose trigger evaluation is soon or
\* immediate is eventually succeeded by the loop (it does not stay the agent's
\* running, triggering generation for ever).
AgentUrgent(a) ==
    /\ a \in DOMAIN agen
    /\ agen[a].n >= 1
    /\ agen[a].status = "running"
    /\ evaluate_triggers(agen[a].prof) \in {"soon", "immediate"}

C9_SwarmSuccessionOnTrigger ==
    \A a \in 1..MaxAgents : [](AgentUrgent(a) => <>(~AgentUrgent(a)))

\* C10: an iteration of the swarm loop finalizes (report written, loop stopped)
\* if and only if every agent of the refreshed state is completed or succeeded.
AllAgentsComplete(st) ==
    \A a \in DOMAIN st.agents : st.agents[a].status \in {"completed", "succeeded"}

C10_FinalizeIffAllComplete ==
    [][/\ (spc = "tick" /\ spc' # "tick")
             => /\ mstate' = fstate
                /\ (spc' = "done" /\ report') <=> AllAgentsComplete(fstate)
                /\ spc' # "done" => (spc' = "advance" /\ ~report')
       /\ spc = "done" => (spc' = "done" /\ report)]_vars

C10_Witness ==
    /\ spc = "done"
    /\ report
    /\ last = "swarm_finalize"
    /\ Cardinality(DOMAIN mstate.agents) >= 2
    /\ AllAgentsComplete(mstate)

\* ---------------------------------------------------------- knowledge store
WithinCaps(store) ==
    /\ Len(store.success_patterns) <= max_success_patterns
    /\ Len(store.anti_patterns) <= max_anti_patterns
    /\ Len(store.domain_knowledge) <= max_domain_knowledge

\* C11: an add command on a store whose lists are within their caps leaves every
\* list within its cap, so after any sequence of adds on a fresh store no list is
\* longer than its cap.
C11_AddKeepsCaps ==
    [][last' = "ks_add" => (WithinCaps(knowledge) => WithinCaps(knowledge'))]_vars

\* three adds of pairwise dissimilar success patterns went into a list of cap two:
\* the third one overflowed it and the list was cut back to the cap
C11_Witness ==
    /\ last = "ks_add"
    /\ ks_ops > max_success_patterns
    /\ Cardinality({lower(t[3]) : t \in {u \in added : u[1] = "success_pattern"}})
           = ks_ops
    /\ \A t, u \in added : t[3] # u[3] =>
           ~IsInfix(lower(t[3]), lower(u[3]))
    /\ Len(knowledge.success_patterns) = max_success_patterns

\* C12: consolidating the learnings of a generation leaves every list of the
\* store within its cap.
C12_ConsolidateKeepsCaps ==
    [][last' = "ks_consolidate" => (WithinCaps(knowledge) => WithinCaps(knowledge'))]_vars

\* occurrences of an entry (an entry without the key counts as 1)
OccurrencesOf(e) == IF e.occurrences = 0 THEN 1 ELSE e.occurrences

\* C13: an add whose (kind, context, pattern) was given to an earlier add does not
\* lengthen that kind's list; it increments the occurrences of exactly one existing
\* entry by 1 and leaves the other entries as they were.
C13_RepeatedAddOnlyCounts ==
    [][(last' = "ks_add" /\ lastadd' \in added) =>
          LET key == list_key(lastadd'[1])
              old == knowledge[key]
              new == knowledge'[key]
          IN /\ Len(new) = Len(old)
             /\ \E i \in 1..Len(old) :
                   /\ OccurrencesOf(new[i]) = OccurrencesOf(old[i]) + 1
                   /\ new[i].pattern = old[i].pattern
                   /\ \A j \in 1..Len(old) : j # i => new[j] = old[j]]_vars

\* ---------------------------------------------------------- position tracker
\* the first n lines of a content (all of it when it is shorter)
Prefix(content, n) == SubSeq(content, 1, IF n > Len(content) THEN Len(content) ELSE n)

\* C14: after every get_new_content on a path whose file was only ever appended
\* to (so no truncation reset has happened), the buffers returned for it,
\* concatenated, are the file's content from offset 0 up to the tracked position:
\* nothing returned twice, nothing skipped.
C14_ChunksMakeUpThePrefix ==
    [][last'[1] = "get_new_content" =>
          LET p == last'[2]
          IN (p \in DOMAIN tfiles' /\ files'[p].truncs = 0) =>
                returned'[p] = Prefix(files'[p].content, tfiles'[p].position)]_vars

\* C15: when get_new_content finds a tracked file smaller than last_size, the
\* buffer it returns is the whole current content and the position ends at the end
\* of the file.
C15_TruncationRereadsWholeFile ==
    [][\A p \in Paths :
          (/\ last'[1] = "get_new_content"
           /\ last'[2] = p
           /\ p \in DOMAIN tfiles
           /\ Len(files[p].content) < tfiles[p].last_size)
          => /\ last'[4] = files[p].content
             /\ p \in DOMAIN tfiles'
             /\ tfiles'[p].position = Len(files[p].content)]_vars

\* a shrunken file that still has lines was re-read from the start while the
\* tracker stood at a later position
C15_Witness ==
    /\ last[1] = "get_new_content"
    /\ last[3]
    /\ last[4] # <<>>
    /\ last[4] = files[last[2]].content
    /\ Len(returned[last[2]]) > 0

\* ------------------------------------------------------------ status gatherer
\* no entry is in the ring twice
NoDuplicate(ring) == \A i, j \in DOMAIN ring : ring[i].content = ring[j].content => i = j

\* new is old with some entries appended (the oldest leaving a full ring)
Preserved(old, new) ==
    \E k \in 0..Len(new) : new = LastN(old \o LastN(new, k), MAX_LIVE_EVENTS)

\* C16: when an output file was truncated since the watcher's latest poll of it,
\* the next check_for_changes duplicates nothing into the agent's live ring: the
\* entries already in the ring stay, and every entry added is an event written
\* after the truncation.
C16_TruncationAddsOnlyLaterEvents ==
    [][\A p \in Paths :
          LET a == _extract_agent_id(p)
          IN (/\ last'[1] = "check"
              /\ ticked[p] > 0
              /\ a \in DOMAIN agent_parsed
              /\ NoDuplicate(agent_parsed[a].live_events)
              /\ files[p].trunc_pending)
             => /\ a \in DOMAIN agent_parsed'
                /\ NoDuplicate(agent_parsed'[a].live_events)
                /\ Preserved(agent_parsed[a].live_events, agent_parsed'[a].live_events)
                /\ \A i \in DOMAIN agent_parsed'[a].live_events :
                      LET e == agent_parsed'[a].live_events[i]
                      IN \/ e.content > files[p].cut
                         \/ \E j \in DOMAIN agent_parsed[a].live_events :
                               agent_parsed[a].live_events[j] = e]_vars

\* the live_event messages among the messages sent
LiveSent(msgs) == SelectSeq(msgs, LAMBDA m : m.type = "live_event")

\* C17: on a watcher tick that detects a change in files never truncated, the
\* broadcast is a status_update carrying the snapshot of the files as they are,
\* followed by exactly one live_event for each line appended since the previous
\* tick.
C17_OneLiveEventPerAppendedEvent ==
    [][(/\ last'[1] = "gather"
        /\ last'[3] = "watcher"
        /\ \A p \in Paths : files[p].truncs = 0)
       => /\ Len(sent') >= 1
          /\ sent'[1].type = "status_update"
          /\ \A p \in OutputFiles(files) :
                /\ _extract_agent_id(p) \in DOMAIN sent'[1].data
                /\ sent'[1].data[_extract_agent_id(p)].total_events = Len(files[p].content)
          /\ [i \in 1..Len(LiveSent(sent')) |-> LiveSent(sent')[i].data.content]
                = [i \in 1..Len(fresh) |-> fresh[i].id]]_vars

\* C18: every agent's live ring holds at most MAX_LIVE_EVENTS entries, and the
\* recent-events and new-events lists never hold more than twice MAX_LIVE_EVENTS
\* (the length at which check_for_changes trims).
C18_RingsBounded ==
    /\ \A a \in DOMAIN agent_parsed : Len(agent_parsed[a].live_events) <= MAX_LIVE_EVENTS
    /\ Len(recent_events) <= MAX_LIVE_EVENTS * 2
    /\ Len(new_events) <= MAX_LIVE_EVENTS * 2

\* C19: no step moves the last_activity the gatherer holds for an agent to an
\* earlier time.
C19_LastActivityNeverBackward ==
    [][\A a \in DOMAIN agent_parsed :
          /\ a \in DOMAIN agent_parsed'
          /\ agent_parsed'[a].last_activity # 0
                => agent_parsed'[a].last_activity >= agent_parsed[a].last_activity]_vars

\* C20: a status gather re-parses only files it has not parsed before as they are
\* now: a file parsed at its present modification time is a cache hit.
C20_SteadyStateAlwaysHits ==
    [][last'[1] = "gather" =>
          \A i \in DOMAIN last'[2] : cache_key(files, last'[2][i]) \notin seen]_vars

\* C21: whenever the trigger tool runs on a status file, it exits 3 if the
\* file cannot be read, and otherwise 2 when the weighted score of the status
\* is strictly greater than 0.70, 1 when it is strictly greater than 0.50 and
\* at most 0.70, and 0 otherwise.
UrgencyExit(st) ==
    IF RGt(weighted_score(st), <<70, 100>>) THEN 2
    ELSE IF RGt(weighted_score(st), <<50, 100>>) THEN 1
    ELSE 0

C21_ExitCodeFollowsUrgency ==
    [][(last'[1] = "main" /\ (gens[1].exists => gens[1].prof.numeric))
       => last'[2] = IF gens[1].exists THEN UrgencyExit(gens[1].prof) ELSE 3]_vars

\* C22: a tick of monitor_generation in which the trigger script failed (it
\* could not read the status, or it crashed on it) does not return
\* needs_succession.
ScriptFails(f) ==
    \/ ~f.exists
    \/ /\ f.status \notin {"completed", "failed", "needs_succession"}
       /\ ~f.prof.numeric

C22_ScriptFailureMeansNoSuccession ==
    [][(mon # "idle" /\ last'[1] = "monitor_generation" /\ ScriptFails(gens[1]))
       => last'[2] # "needs_succession"]_vars

\* C23: a loop iteration in which the spawn of a generation fails ends the
\* run: the loop does not go on polling.
C23_SpawnFailureEndsRun ==
    [][last' = "spawn_failed" => lpc' = "stopped"]_vars

\* C24: after a handle_succession(N) in which a write failed, either
\* generation N+1 exists, current_generation is N+1 and generation N is marked
\* succeeded, or the generation directories and gas-state.json are as before.
C24_FailedSuccessionAllOrNothing ==
    [][(lpc = "loop" /\ last' \in {"spawn_failed", "write_failed"})
       => \/ /\ gens'[current_gen + 1].exists
             /\ sstate'.current_generation = current_gen + 1
             /\ gens'[current_gen].status = "succeeded"
          \/ /\ gens' = gens
             /\ sstate' = sstate]_vars

\* C25: once an interrupt has been received the single-mode loop starts no
\* further poll or succession and stops, and the swarm loop stops at an
\* iteration boundary, where every agent of the wave it holds as current
\* has been given its generation.
C25_InterruptStopsAtIterationBoundary ==
    [][/\ (interrupted /\ lpc = "loop") =>
             /\ <<sstate, current_gen, knowledge, report>>' =
                   <<sstate, current_gen, knowledge, report>>
             /\ lpc' = "loop" \/ last' = "loop_stopped"
       /\ (interrupted' /\ spc' = "stopped") =>
             zero_gen_agents(mstate', mstate'.current_wave) = {}]_vars

\* ------------------------------------------------------------- websocket
\* the connections a finished broadcast sent its message to
Delivered(log) == {log[i][1] : i \in {j \in DOMAIN log : log[j][2]}}
FailedSends(log) == {log[i][1] : i \in {j \in DOMAIN log : ~log[j][2]}}

\* C26: a broadcast of type T begins a send to a connection only if T is in
\* the connection's subscription set at that moment, and when it ends it has
\* sent the message to every connection that was registered, open and
\* subscribed to T from its beginning to its end.
C26_BroadcastIsSubscriptionFiltered ==
    [][/\ (bcast.pc = "iter" /\ bcast'.pc = "send") =>
             bcast.type \in subscriptions[bcast'.cur]
       /\ last'[1] = "broadcast" => last'[4] \subseteq Delivered(last'[3])]_vars

\* a broadcast ended that sent to one connection and passed over another one
\* that is registered and open but not subscribed to the type
C26_Witness ==
    /\ last[1] = "broadcast"
    /\ Delivered(last[3]) # {}
    /\ \E c \in connections :
          /\ sock[c] = "open"
          /\ last[2] \notin subscriptions[c]
          /\ c \notin Delivered(last[3]) \cup FailedSends(last[3])

\* C27: when a broadcast ends in which a send failed, the connections whose
\* send failed are no longer in the connection set, and every other
\* connection that was registered, open and subscribed throughout has been
\* sent the message.
C27_FailedSendDropsOnlyThatConnection ==
    [][(last'[1] = "broadcast" /\ FailedSends(last'[3]) # {}) =>
          /\ connections' \cap FailedSends(last'[3]) = {}
          /\ connections' = connections \ FailedSends(last'[3])
          /\ (last'[4] \ FailedSends(last'[3])) \subseteq Delivered(last'[3])]_vars

\* a broadcast ended whose first send failed and whose second send, to
\* another connection, went through
C27_Witness ==
    /\ last[1] = "broadcast"
    /\ Len(last[3]) >= 2
    /\ ~last[3][1][2]
    /\ last[3][2][2]
    /\ last[3][2][1] \in connections

\* C28: no send to a client is in progress while the connection-set lock is
\* held by a broadcast or by the periodic ping.
C28_NoSendUnderTheLock ==
    /\ bcast.pc = "send" => lock # "broadcast"
    /\ ping.pc = "send" => lock # "ping"

\* C29: a query gives the same result on a store and on the JSON export of
\* that store, reloaded.
C29_ExportPreservesQueries ==
    [][last' = "ks_query" => qres'[2] = qres'[3]]_vars

\* the lines of a buffer that are events
RECURSIVE compliant(_)
compliant(lines) ==
    IF lines = <<>> THEN <<>>
    ELSE IF Head(lines).kind = "event" THEN <<Head(lines)>> \o compliant(Tail(lines))
    ELSE compliant(Tail(lines))

\* C30: a parse call never raises, and its aggregates are those of parsing the
\* buffer without its empty, malformed and non-event lines: such lines change
\* nothing and the lines after them are parsed.
C30_NonCompliantLinesAreSkipped ==
    [][last' = "parse_output_content" =>
          /\ ~raised'
          /\ parsing'.out = parse_output_content(compliant(chunk'), parsing.out)]_vars

\* the fields other than the stall time are at healthy values
Healthy(p) ==
    /\ p.confidence >= confidence_min
    /\ p.errors = 0
    /\ p.interactions < interaction_limit

\* C31: a running generation that the loop monitors and whose worker froze at
\* healthy values is eventually succeeded, as its stall time grows.
C31_StalledWorkerIsSucceeded ==
    \A g \in 1..MaxGen :
        (lpc = "loop" /\ current_gen = g /\ gens[g].status = "running"
             /\ Healthy(gens[g].prof)) ~> (current_gen > g)

\* the entries of a list whose pattern is substring-equivalent to a pattern text
SimilarIn(patterns, pattern) ==
    {i \in 1..Len(patterns) :
        \/ IsInfix(lower(patterns[i].pattern), lower(pattern))
        \/ IsInfix(lower(pattern), lower(patterns[i].pattern))}

\* C32: an add whose pattern is substring-equivalent to an entry of its type's
\* list leaves the list as long as it was, increments the occurrences of the
\* first such entry by 1 and raises its confidence by 0.05, capped at 1.0, if
\* and only if the resulting occurrences is at least 3.
C32_RepeatedAddPromotes ==
    [][(last' = "ks_add" /\ SimilarIn(knowledge[list_key(lastadd'[1])], lastadd'[3]) # {}) =>
          LET key == list_key(lastadd'[1])
              hits == SimilarIn(knowledge[key], lastadd'[3])
              i == CHOOSE h \in hits : \A j \in hits : h <= j
              old == knowledge[key][i]
              new == knowledge'[key][i]
          IN /\ Len(knowledge'[key]) = Len(knowledge[key])
             /\ OccurrencesOf(new) = OccurrencesOf(old) + 1
             /\ new.confidence =
                    IF OccurrencesOf(new) >= promotion_threshold
                    THEN (IF old.confidence + promotion_step > 100 THEN 100
                          ELSE old.confidence + promotion_step)
                    ELSE old.confidence]_vars

\* what the decay is to do to an entry of the success or anti list
Decayed(p, current_generation) ==
    IF p.source_generation # 0 /\ current_generation - p.source_generation >= 2
          /\ p.occurrences <= 1
    THEN [p EXCEPT !.confidence = IF @ - 10 < 10 THEN 10 ELSE @ - 10]
    ELSE p

\* C33: decay(current_gen) lowers by 0.10, floored at 0.10, the confidence of
\* exactly the success and anti entries whose source generation is at least 2
\* behind current_gen and whose occurrences is at most 1; every other entry,
\* and every domain entry, is left as it was.
C33_DecayTouchesOldUnreinforced ==
    [][last'[1] = "decay" =>
          /\ knowledge'.domain_knowledge = knowledge.domain_knowledge
          /\ \A key \in {"success_patterns", "anti_patterns"} :
                /\ Len(knowledge'[key]) = Len(knowledge[key])
                /\ \A i \in 1..Len(knowledge[key]) :
                      knowledge'[key][i] = Decayed(knowledge[key][i], last'[2])]_vars

\* C34: after every get, set and invalidate the cache holds at most max_size
\* entries; a set of a new key at capacity evicts exactly one entry, the one
\* least recently touched by get or set, and no other call evicts.
C34_CacheBoundedAndEvictsLRU ==
    [][last'[1] \in {"get", "set", "invalidate"} =>
          /\ Cardinality(DOMAIN cache') <= _max_size
          /\ (last'[1] = "set" /\ last'[2] \notin DOMAIN cache
                  /\ Cardinality(DOMAIN cache) = _max_size) =>
                 /\ last'[3] = {Head(touched)}
                 /\ DOMAIN cache' = (DOMAIN cache \ {Head(touched)}) \cup {last'[2]}
          /\ (last'[1] = "set" /\ ~(last'[2] \notin DOMAIN cache
                                     /\ Cardinality(DOMAIN cache) = _max_size)) =>
                 DOMAIN cache' = DOMAIN cache \cup {last'[2]}
          /\ last'[1] = "get" => DOMAIN cache' = DOMAIN cache
          /\ last'[1] = "invalidate" => DOMAIN cache' = DOMAIN cache \ {last'[2]}]_vars

\* a cache of capacity two evicted an entry that was set after the entry it
\* kept, because a get had touched the older one since
C34_Witness ==
    /\ last[1] = "set"
    /\ _max_size = 2
    /\ _hits > 0
    /\ last[3] # {}
    /\ Len(access_order) = 2
    /\ last[3] = {<<"p2", 1>>}
    /\ access_order = <<<<"p1", 1>>, <<"p3", 1>>>>

\* C35: current_wave of the state file never exceeds total_waves, and a write
\* that raises it passes only waves whose agents are all completed or succeeded.
C35_AdvanceStaysWithinWaves ==
    [][/\ fstate'.current_wave <= fstate'.total_waves
       /\ \A w \in fstate.current_wave..(fstate'.current_wave - 1) :
             is_wave_complete(fstate, w)]_vars

\* C36: a whole-state write of the swarm loop (advance_wave, or the
\* update_agent_status of a spawn) keeps every agent status that another writer
\* put into the state file after the loop's refresh, the agents the loop
\* itself spawns in that write aside.
C36_LoopWritesKeepOtherUpdates ==
    [][last' \in {"swarm_advance_true", "swarm_spawn"} =>
          \A a \in DOMAIN fstate.agents :
              (/\ fstate.agents[a].status # mstate.agents[a].status
               /\ ~(last' = "swarm_spawn" /\ a \in zero_gen_agents(mstate, mstate.current_wave)))
                  => fstate'.agents[a].status = fstate.agents[a].status]_vars

\* ---------------------------------------------------------------- C37
\* the loop steps that finish a generation: completed with task_complete,
\* completed without it, needs_succession
FinishedGeneration ==
    last' \in {"loop_task_complete", "loop_completed_succession", "loop_succession"}

\* C37: every step of the single-mode loop that finishes a generation
\* consolidates that generation exactly once, so generations_completed of the
\* knowledge store grows by exactly 1 with it.
C37_ConsolidatedExactlyOnce ==
    [][FinishedGeneration =>
         knowledge'.generations_completed = knowledge.generations_completed + 1]_vars

\* ---------------------------------------------------------------- C38
\* the lines of buffer b that are among the lines of history h
ReturnedAgain(b, h) == {i \in DOMAIN b : \E j \in DOMAIN h : h[j] = b[i]}

\* C38: while the file has never been truncated, no step of get_all_content or
\* get_new_content on the path moves its tracked offset backward, and a buffer
\* get_new_content returns holds no line it has returned before.
C38_OffsetNeverMovesBackward ==
    [][(files'["p1"].truncs = 0 /\ "p1" \in DOMAIN tfiles) =>
          /\ "p1" \in DOMAIN tfiles'
          /\ tfiles'["p1"].position >= tfiles["p1"].position
          /\ last'[1] = "get_new_content" => ReturnedAgain(last'[4], returned["p1"]) = {}]_vars

\* ---------------------------------------------------------------- C39
\* the complete lines of a file of pieces
complete_lines(content) == {i \in DOMAIN content : content[i].kind \in {"event", "tail"}}

\* C39: after every incremental poll of the output file, total_events of the
\* agent's parsed output equals the number of complete lines in the file, also
\* when an earlier poll read the file in the middle of a line.
C39_SplitLineCountedOnce ==
    [][last'[1] = "check_for_changes" =>
         parsing'.out.total_events = Cardinality(complete_lines(files'["p1"].content))]_vars

\* ---------------------------------------------------------------- C40
\* C40: along every run of the single-mode loop, the generations spawned so far
\* (gas-state.json's total_generations, and the loop's current generation) stay
\* within max_generations_per_agent.
C40_SpawnsAtMostMaxGenerations ==
    /\ sstate.total_generations <= max_generations_per_agent
    /\ current_gen <= max_generations_per_agent

====
